---- MODULE Spec2Model ----
(***************************************************************************)
(* A model of haunt's planning and reconciliation engine: the symlink      *)
(* model, the conflict classifier, the install planner and executor and    *)
(* the registry, over a small concrete filesystem.                         *)
(*                                                                         *)
(* Paths are sequences of components counted from the filesystem root      *)
(* (<<>> is "/").  The raw target stored in a symbolic link is a record    *)
(* [abs, parts]: an absolute spelling or one relative to the directory     *)
(* holding the link, possibly starting with "..".                          *)
(*                                                                         *)
(* Scope of the filesystem: the directories above a link path are real     *)
(* directories or absent; operating-system failures other than the ones    *)
(* the code names (permissions, full disks) are not modelled.              *)
(***************************************************************************)
EXTENDS Integers, Sequences, FiniteSets, TLC

VARIABLES
    fs,      \* the target tree: node path -> content
    regfile, \* the content of the registry file, or NoFile
    plan,    \* what the planner returned to the running invocation, or NoPlan
    planned_with, \* the on_conflict of the running invocation, or "none"
    clock,   \* number of executor calls so far; the source of installed_at
    last,    \* record of the most recent executor call
    prev,    \* record of the executor call before it
    installed_from, \* history: package name -> the package_dir whose install
                    \* wrote the entry now in the registry file
    tmpfile, \* the content of the temporary file beside the registry file
    saving,  \* where a Registry.save under way has got to, or NoSave
    procs    \* the invocations running side by side: where each has got to

vars == <<fs, regfile, plan, planned_with, clock, last, prev, installed_from,
          tmpfile, saving, procs>>

----------------------------------------------------------------------------
(* Bounds of the model. *)

\* executor calls in one behaviour
MaxClock == 2
\* symbolic links followed by one resolution
MaxHops == 3

----------------------------------------------------------------------------
(* Pure path algebra (pathlib.PurePath). *)

Parent(p) == IF Len(p) = 0 THEN p ELSE SubSeq(p, 1, Len(p) - 1)

BaseName(p) == IF Len(p) = 0 THEN "" ELSE p[Len(p)]

IsPrefix(a, b) == Len(a) <= Len(b) /\ SubSeq(b, 1, Len(a)) = a

\* removal of ".." components, each cancelling the component before it
RECURSIVE NormFrom(_, _)
NormFrom(acc, rest) ==
    IF rest = <<>> THEN acc
    ELSE NormFrom(IF Head(rest) = ".." THEN Parent(acc)
                  ELSE Append(acc, Head(rest)),
                  Tail(rest))

Normalize(p) == NormFrom(<<>>, p)

\* dir / target: an absolute target replaces dir, a relative one is appended
Join(dir, raw) == IF raw.abs THEN raw.parts ELSE dir \o raw.parts

RECURSIVE CommonLen(_, _)
CommonLen(a, b) ==
    IF a = <<>> \/ b = <<>> \/ Head(a) # Head(b) THEN 0
    ELSE 1 + CommonLen(Tail(a), Tail(b))

Ups(n) == [i \in 1..n |-> ".."]

\* path.relative_to(base, walk_up=True)
RelativeTo(path, base) ==
    LET k == CommonLen(path, base)
    IN  [abs |-> FALSE,
         parts |-> Ups(Len(base) - k) \o SubSeq(path, k + 1, Len(path))]

AbsRaw(p) == [abs |-> TRUE, parts |-> p]

NoRaw == [abs |-> FALSE, parts |-> <<>>]

----------------------------------------------------------------------------
(* The concrete filesystem. *)

Absent == [kind |-> "absent", raw |-> NoRaw]
RegularFile == [kind |-> "file", raw |-> NoRaw]
Directory == [kind |-> "dir", raw |-> NoRaw]
LinkTo(raw) == [kind |-> "link", raw |-> raw]

TargetDir == <<"t">>
ShellOne == <<"d1", "shell">>
ShellTwo == <<"d2", "shell">>
Vim == <<"d1", "vim">>
OtherFile == <<"other", "x">>
Gone == <<"gone">>

PackageDirs == {ShellOne, ShellTwo, Vim}

\* the entries below each package directory that are not directories
PackageTree(dir) ==
    IF dir = ShellOne
    THEN {[rel |-> <<"f">>, node |-> RegularFile],
          [rel |-> <<"c", "g">>, node |-> RegularFile]}
    ELSE IF dir = ShellTwo
    THEN {[rel |-> <<"f">>, node |-> RegularFile]}
    ELSE IF dir = Vim
    THEN {[rel |-> <<"f">>, node |-> LinkTo(AbsRaw(OtherFile))]}
    ELSE IF dir = ShellOne \o <<"c">>
    THEN {[rel |-> <<"g">>, node |-> RegularFile]}
    ELSE {}

\* the nodes of the target tree whose content varies
LinkNodes == {TargetDir \o <<"f">>, TargetDir \o <<"c", "g">>}
DirNodes == {TargetDir \o <<"c">>}
TargetNodes == LinkNodes \cup DirNodes

\* everything outside the target tree is fixed
StaticNode(p) ==
    IF p \in {<<>>, TargetDir, <<"d1">>, <<"d2">>, <<"other">>,
              ShellOne \o <<"c">>} \cup PackageDirs
    THEN Directory
    ELSE IF p = OtherFile THEN RegularFile
    ELSE IF \E d \in PackageDirs : \E e \in PackageTree(d) : d \o e.rel = p
    THEN LET d == CHOOSE d \in PackageDirs :
                      \E e \in PackageTree(d) : d \o e.rel = p
             e == CHOOSE e \in PackageTree(d) : d \o e.rel = p
         IN  e.node
    ELSE Absent

\* os.lstat: the node at p itself, a link not followed
Lstat(F, p) == IF p \in DOMAIN F THEN F[p] ELSE StaticNode(p)

\* Path.resolve(): ".." removed and links followed, as far as the path exists
RECURSIVE ResolveHops(_, _, _)
ResolveHops(F, p, hops) ==
    IF Lstat(F, Normalize(p)).kind = "link" /\ hops > 0
    THEN ResolveHops(F, Join(Parent(Normalize(p)), Lstat(F, Normalize(p)).raw),
                     hops - 1)
    ELSE Normalize(p)

Resolve(F, p) == ResolveHops(F, p, MaxHops)

\* Path.exists(), Path.is_dir(): links followed
PathExists(F, p) == Lstat(F, Resolve(F, p)).kind \in {"file", "dir"}
IsDir(F, p) == Lstat(F, Resolve(F, p)).kind = "dir"
\* Path.is_symlink(), Path.readlink(): links not followed
IsSymlink(F, p) == Lstat(F, p).kind = "link"
ReadLink(F, p) == Lstat(F, p).raw

----------------------------------------------------------------------------
(* models.py: Symlink. *)

Symlink(link, source) == [link_path |-> link, source_path |-> source]

\* faulty variant: the source is written as it stands
absolute_source_path(s) == AbsRaw(s.source_path)

\* Symlink.relative_source_path
relative_source_path(s) == RelativeTo(s.source_path, Parent(s.link_path))

\* Symlink.points_to(target)
points_to(F, s, target) ==
    Resolve(F, Join(Parent(s.link_path), target)) = Resolve(F, s.source_path)

\* Symlink.exists()
SymlinkExists(F, s) ==
    IF ~IsSymlink(F, s.link_path) THEN FALSE
    ELSE points_to(F, s, ReadLink(F, s.link_path))

----------------------------------------------------------------------------
(* files/symlinks.py: check_conflict. *)

NoConflict == [path |-> <<>>, type |-> "none", points_to |-> NoRaw]

Conflict(path, type, target) ==
    [path |-> path, type |-> type, points_to |-> target]

\* faulty variant: a link that leads nowhere counts as nothing there
check_conflict_following(F, s) ==
    IF ~PathExists(F, s.link_path)
    THEN NoConflict
    ELSE IF IsSymlink(F, s.link_path)
    THEN IF SymlinkExists(F, s)
         THEN Conflict(s.link_path, "CORRECT_SYMLINK", ReadLink(F, s.link_path))
         ELSE Conflict(s.link_path, "DIFFERENT_SYMLINK",
                       ReadLink(F, s.link_path))
    ELSE IF IsDir(F, s.link_path)
    THEN Conflict(s.link_path, "DIRECTORY", NoRaw)
    ELSE Conflict(s.link_path, "FILE", NoRaw)

check_conflict(F, s) ==
    IF ~PathExists(F, s.link_path) /\ ~IsSymlink(F, s.link_path)
    THEN NoConflict
    ELSE IF IsSymlink(F, s.link_path)
    THEN IF SymlinkExists(F, s)
         THEN Conflict(s.link_path, "CORRECT_SYMLINK", ReadLink(F, s.link_path))
         ELSE IF ~PathExists(F, s.link_path)
         THEN Conflict(s.link_path, "BROKEN_SYMLINK", ReadLink(F, s.link_path))
         ELSE Conflict(s.link_path, "DIFFERENT_SYMLINK",
                       ReadLink(F, s.link_path))
    ELSE IF IsDir(F, s.link_path)
    THEN Conflict(s.link_path, "DIRECTORY", NoRaw)
    ELSE Conflict(s.link_path, "FILE", NoRaw)

----------------------------------------------------------------------------
(* files/discover.py: discover_files. *)

\* Python's order of the component names that occur
NameRank(x) == IF x = "c" THEN 1 ELSE IF x = "f" THEN 2 ELSE 3

RECURSIVE PathLess(_, _)
PathLess(a, b) ==
    IF a = <<>> THEN b # <<>>
    ELSE IF b = <<>> THEN FALSE
    ELSE IF Head(a) = Head(b) THEN PathLess(Tail(a), Tail(b))
    ELSE NameRank(Head(a)) < NameRank(Head(b))

RECURSIVE Sorted(_)
Sorted(S) ==
    IF S = {} THEN <<>>
    ELSE LET m == CHOOSE x \in S : \A y \in S \ {x} : PathLess(x, y)
         IN  <<m>> \o Sorted(S \ {m})

\* faulty variant: a scan that does not descend into subdirectories
discover_files_top_level(package_dir) ==
    Sorted({e.rel : e \in {x \in PackageTree(package_dir) : Len(x.rel) = 1}})

discover_files(package_dir) ==
    Sorted({e.rel : e \in PackageTree(package_dir)})

----------------------------------------------------------------------------
(* operations/paths.py and operations/install.py: the install planner. *)

Policies == {"abort", "skip", "force"}

NoPlan == [kind |-> "none"]

PlanError(e) == [kind |-> "error", error |-> e]

\* the checks of normalize_package_dir on the resolved path
\* faulty variant: anything that exists passes for a package directory
CheckPackageDirAny(F, resolved) ==
    IF ~PathExists(F, resolved) THEN [err |-> "not_found", dir |-> resolved]
    ELSE [err |-> "none", dir |-> resolved]

CheckPackageDir(F, resolved) ==
    IF ~PathExists(F, resolved) THEN [err |-> "not_found", dir |-> resolved]
    ELSE IF ~IsDir(F, resolved)
    THEN [err |-> "not_a_directory", dir |-> resolved]
    ELSE [err |-> "none", dir |-> resolved]

\* normalize_package_dir: the resolved path, or the error it raises
normalize_package_dir(F, package_dir) ==
    CheckPackageDir(F, Resolve(F, package_dir))

normalize_target_dir(F, target_dir) == Resolve(F, target_dir)

\* validate_install_directories: TRUE when it raises its validation error
validate_install_directories(package_dir, target_dir) ==
    package_dir = <<>> \/ IsPrefix(package_dir, target_dir)

\* faulty variant: force mode schedules every conflicting path, directories too
PlanStepForceAll(on_conflict, symlink, conflict, lists) ==
    IF conflict = NoConflict
    THEN [symlinks_to_create |-> Append(lists.symlinks_to_create, symlink),
          conflicts |-> lists.conflicts]
    ELSE IF conflict.type = "CORRECT_SYMLINK"
    THEN [symlinks_to_create |-> lists.symlinks_to_create,
          conflicts |-> Append(lists.conflicts, conflict)]
    ELSE [symlinks_to_create |->
              IF on_conflict = "force"
              THEN Append(lists.symlinks_to_create, symlink)
              ELSE lists.symlinks_to_create,
          conflicts |-> Append(lists.conflicts, conflict)]

\* faulty variant: skip mode does not record the conflicts it passes over
PlanStepSkipSilent(on_conflict, symlink, conflict, lists) ==
    IF conflict = NoConflict
    THEN [symlinks_to_create |-> Append(lists.symlinks_to_create, symlink),
          conflicts |-> lists.conflicts]
    ELSE IF conflict.type = "CORRECT_SYMLINK"
    THEN [symlinks_to_create |-> lists.symlinks_to_create,
          conflicts |-> Append(lists.conflicts, conflict)]
    ELSE [symlinks_to_create |->
              IF on_conflict = "force" /\ conflict.type # "DIRECTORY"
              THEN Append(lists.symlinks_to_create, symlink)
              ELSE lists.symlinks_to_create,
          conflicts |-> IF on_conflict = "skip" THEN lists.conflicts
                        ELSE Append(lists.conflicts, conflict)]

\* the loop body's updates of the two lists, given the file's conflict
PlanStep(on_conflict, symlink, conflict, lists) ==
    IF conflict = NoConflict
    THEN [symlinks_to_create |-> Append(lists.symlinks_to_create, symlink),
          conflicts |-> lists.conflicts]
    ELSE IF conflict.type = "CORRECT_SYMLINK"
    THEN [symlinks_to_create |-> lists.symlinks_to_create,
          conflicts |-> Append(lists.conflicts, conflict)]
    ELSE [symlinks_to_create |->
              IF on_conflict = "force" /\ conflict.type # "DIRECTORY"
              THEN Append(lists.symlinks_to_create, symlink)
              ELSE lists.symlinks_to_create,
          conflicts |-> Append(lists.conflicts, conflict)]

\* the loop body for one relative path
PlanFile(F, on_conflict, symlink, lists) ==
    PlanStep(on_conflict, symlink, check_conflict(F, symlink), lists)

RECURSIVE PlanLoop(_, _, _, _, _, _)
PlanLoop(F, package_dir, target_dir, on_conflict, files, lists) ==
    IF files = <<>> THEN lists
    ELSE PlanLoop(F, package_dir, target_dir, on_conflict, Tail(files),
                  PlanFile(F, on_conflict,
                           Symlink(target_dir \o Head(files),
                                   package_dir \o Head(files)),
                           lists))

\* the InstallPlan returned
MakePlan(package_dir, target_dir, lists) ==
    [kind |-> "plan",
     package_name |-> BaseName(package_dir),
     package_dir |-> package_dir,
     target_dir |-> target_dir,
     symlinks_to_create |-> lists.symlinks_to_create,
     conflicts |-> lists.conflicts]

\* compute_install_plan once both paths are normalized
PlanNormalized(F, pkg, target_dir, on_conflict) ==
    IF pkg.err # "none" THEN PlanError(pkg.err)
    ELSE IF validate_install_directories(pkg.dir, target_dir)
    THEN PlanError("value_error")
    ELSE MakePlan(pkg.dir, target_dir,
                  PlanLoop(F, pkg.dir, target_dir, on_conflict,
                           discover_files(pkg.dir),
                           [symlinks_to_create |-> <<>>, conflicts |-> <<>>]))

compute_install_plan(F, package_arg, target_arg, on_conflict) ==
    PlanNormalized(F, normalize_package_dir(F, package_arg),
                   normalize_target_dir(F, target_arg), on_conflict)

----------------------------------------------------------------------------
(* registry.py and models.py: the registry and its JSON file.                *)
(*                                                                          *)
(* execute_install_plan builds its PackageEntry with a package_dir          *)
(* (install.py:156-162), but PackageEntry.to_dict and from_dict             *)
(* (models.py:55-84) neither write nor read one.  An entry read back from   *)
(* the file therefore has no package_dir, and reading that attribute        *)
(* (install.py:117) raises AttributeError.                                  *)

REGISTRY_VERSION == 1

\* str(path) as written to JSON, and Path(text) as read back
PathStr(p) == [text |-> p]
StrPath(t) == t.text

NoFile == [exists |-> FALSE]

\* no invocation runs beside the one at hand
NoProcs == <<>>

\* no Registry.save is under way
NoSave == [step |-> "idle"]

\* PackageEntry.to_dict
EntryToDict(entry) ==
    [name |-> entry.name,
     target_dir |-> PathStr(entry.target_dir),
     symlinks |-> [i \in 1..Len(entry.symlinks) |->
                     [link_path |-> PathStr(entry.symlinks[i].link_path),
                      source_path |-> PathStr(entry.symlinks[i].source_path)]],
     installed_at |-> entry.installed_at]

\* PackageEntry.from_dict
EntryFromDict(data) ==
    [name |-> data.name,
     target_dir |-> StrPath(data.target_dir),
     symlinks |-> [i \in 1..Len(data.symlinks) |->
                     Symlink(StrPath(data.symlinks[i].link_path),
                             StrPath(data.symlinks[i].source_path))],
     installed_at |-> data.installed_at]

\* Registry.to_dict
RegistryToDict(registry) ==
    [version |-> registry.version,
     packages |-> [n \in DOMAIN registry.packages |->
                     EntryToDict(registry.packages[n])]]

EmptyRegistry == [version |-> REGISTRY_VERSION, packages |-> <<>>]

\* the keys PackageEntry.from_dict subscripts are all there; a key that is
\* not raises KeyError
EntryComplete(data) ==
    /\ {"name", "target_dir", "symlinks", "installed_at"} \subseteq DOMAIN data
    /\ \A i \in DOMAIN data.symlinks :
           {"link_path", "source_path"} \subseteq DOMAIN data.symlinks[i]

\* faulty variant: the packages are looked at before the version is
RegistryFromDictPackagesFirst(data) ==
    IF "packages" \notin DOMAIN data
    THEN [err |-> "registry_validation", registry |-> EmptyRegistry]
    ELSE IF \E n \in DOMAIN data.packages : ~EntryComplete(data.packages[n])
    THEN [err |-> "key_error", registry |-> EmptyRegistry]
    ELSE IF "version" \notin DOMAIN data
    THEN [err |-> "registry_validation", registry |-> EmptyRegistry]
    ELSE IF data.version > REGISTRY_VERSION
    THEN [err |-> "registry_version", registry |-> EmptyRegistry]
    ELSE [err |-> "none",
          registry |-> [version |-> data.version,
                        packages |-> [n \in DOMAIN data.packages |->
                                        EntryFromDict(data.packages[n])]]]

\* Registry.from_dict: the registry, or the error it raises
RegistryFromDict(data) ==
    IF "version" \notin DOMAIN data
    THEN [err |-> "registry_validation", registry |-> EmptyRegistry]
    ELSE IF data.version > REGISTRY_VERSION
    THEN [err |-> "registry_version", registry |-> EmptyRegistry]
    ELSE IF "packages" \notin DOMAIN data
    THEN [err |-> "registry_validation", registry |-> EmptyRegistry]
    ELSE IF \E n \in DOMAIN data.packages : ~EntryComplete(data.packages[n])
    THEN [err |-> "key_error", registry |-> EmptyRegistry]
    ELSE [err |-> "none",
          registry |-> [version |-> data.version,
                        packages |-> [n \in DOMAIN data.packages |->
                                        EntryFromDict(data.packages[n])]]]

\* Registry.load once the file is known to exist: a KeyError out of from_dict
\* is raised again as RegistryValidationError
LoadParsed(parsed) ==
    IF parsed.err = "key_error"
    THEN [err |-> "registry_validation", registry |-> parsed.registry]
    ELSE parsed

\* the number of pieces write_text's text reaches the disk in
MaxChunks == 2

\* the file holding the first k pieces of json.dumps(data): the JSON document
\* when all are there, a text that is no JSON document when not
TextFile(data, k) ==
    IF k = MaxChunks THEN [exists |-> TRUE, data |-> data]
    ELSE [exists |-> TRUE, cut |-> k, of |-> data]

\* the file is absent or holds a whole JSON document; json.loads raises
\* JSONDecodeError on any other
Whole(file) == ~file.exists \/ "data" \in DOMAIN file

\* faulty variant: a file that is not there is an error
RegistryLoadStrict(file) ==
    IF ~file.exists THEN [err |-> "registry_validation", registry |-> EmptyRegistry]
    ELSE IF ~Whole(file)
    THEN [err |-> "registry_validation", registry |-> EmptyRegistry]
    ELSE LoadParsed(RegistryFromDict(file.data))

\* faulty variant: a file that cannot be read is taken for an empty registry
RegistryLoadRepairing(file) ==
    IF ~file.exists THEN [err |-> "none", registry |-> EmptyRegistry]
    ELSE IF ~Whole(file)
    THEN [err |-> "none", registry |-> EmptyRegistry]
    ELSE IF RegistryFromDict(file.data).err # "none"
    THEN [err |-> "none", registry |-> EmptyRegistry]
    ELSE RegistryFromDict(file.data)

\* Registry.load
RegistryLoad(file) ==
    IF ~file.exists THEN [err |-> "none", registry |-> EmptyRegistry]
    ELSE IF ~Whole(file)
    THEN [err |-> "registry_validation", registry |-> EmptyRegistry]
    ELSE LoadParsed(RegistryFromDict(file.data))

\* faulty variant: a load that finds no file writes an empty registry
LoadedFileCreated(file) ==
    IF file.exists THEN file
    ELSE [exists |-> TRUE, data |-> RegistryToDict(EmptyRegistry)]

\* the registry file after Registry.load: load reads it and writes nothing
LoadedFile(file) == file

\* Registry.save: the file after the temporary file is renamed over it
RegistrySave(registry) == [exists |-> TRUE, data |-> RegistryToDict(registry)]

----------------------------------------------------------------------------
(* files/symlinks.py: create_symlink. *)

Unlink(F, p) == [n \in DOMAIN F |-> IF n = p THEN Absent ELSE F[n]]

\* parent.mkdir(parents=True, exist_ok=True)
MkdirParents(F, dir) ==
    [n \in DOMAIN F |->
        IF n \in DirNodes /\ IsPrefix(n, dir) /\ F[n].kind = "absent"
        THEN Directory ELSE F[n]]

MkdirBlocked(F, dir) ==
    \E n \in DOMAIN F : IsPrefix(n, dir) /\ F[n].kind \in {"file", "link"}

\* link_path.symlink_to(target)
SymlinkTo(F, p, raw) == [n \in DOMAIN F |-> IF n = p THEN LinkTo(raw) ELSE F[n]]

\* faulty variant: symlink_to writes over what is there
WriteLinkOver(F, symlink) ==
    [fs |-> SymlinkTo(F, symlink.link_path, relative_source_path(symlink)),
     err |-> "none"]

\* the last step: symlink_to fails on an occupied path
WriteLink(F, symlink) ==
    IF Lstat(F, symlink.link_path).kind # "absent"
    THEN [fs |-> F, err |-> "file_exists"]
    ELSE [fs |-> SymlinkTo(F, symlink.link_path, relative_source_path(symlink)),
          err |-> "none"]

\* the parent directories, then the link
MakeLink(F, symlink) ==
    IF MkdirBlocked(F, Parent(symlink.link_path))
    THEN [fs |-> F, err |-> "file_exists"]
    ELSE WriteLink(MkdirParents(F, Parent(symlink.link_path)), symlink)

\* force mode: whatever occupies link_path is unlinked
ForceRemove(F, symlink, force) ==
    IF force /\ (PathExists(F, symlink.link_path)
                 \/ IsSymlink(F, symlink.link_path))
    THEN Unlink(F, symlink.link_path)
    ELSE F

\* faulty variant: a link already in place is made again
create_symlink_again(F, symlink, force) ==
    IF force /\ IsDir(F, symlink.link_path)
             /\ ~IsSymlink(F, symlink.link_path)
    THEN [fs |-> F, err |-> "is_a_directory"]
    ELSE MakeLink(ForceRemove(F, symlink, force), symlink)

\* faulty variant: force mode removes a directory like anything else
create_symlink_clearing(F, symlink, force) ==
    IF SymlinkExists(F, symlink) THEN [fs |-> F, err |-> "none"]
    ELSE MakeLink(ForceRemove(F, symlink, force), symlink)

create_symlink(F, symlink, force) ==
    IF SymlinkExists(F, symlink) THEN [fs |-> F, err |-> "none"]
    ELSE IF force /\ IsDir(F, symlink.link_path)
               /\ ~IsSymlink(F, symlink.link_path)
    THEN [fs |-> F, err |-> "is_a_directory"]
    ELSE MakeLink(ForceRemove(F, symlink, force), symlink)

----------------------------------------------------------------------------
(* operations/install.py: execute_install_plan. *)

IsDirectoryConflict(c) == c.type = "DIRECTORY"

\* faulty variant: a link that is already correct blocks as well
IsBlockingConflictAny(c) == c.type # "NONE"

IsBlockingConflict(c) == c.type # "CORRECT_SYMLINK"
IsCorrectConflict(c) == c.type = "CORRECT_SYMLINK"

\* the loop over plan.symlinks_to_create; it stops at the first error
RECURSIVE CreateLoop(_, _, _)

CreateNext(r, links, force) ==
    IF r.err # "none" THEN r ELSE CreateLoop(r.fs, links, force)

CreateLoop(F, links, force) ==
    IF links = <<>> THEN [fs |-> F, err |-> "none"]
    ELSE CreateNext(create_symlink(F, Head(links), force), Tail(links), force)

\* the Symlink rebuilt from a CorrectSymlink conflict
ReconstructSymlink(F, conflict) ==
    Symlink(conflict.path,
            Resolve(F, Join(Parent(conflict.path), conflict.points_to)))

\* faulty variant: a Symlink is rebuilt from every conflict, correct or not
CorrectSymlinksAny(F, conflicts) ==
    [i \in DOMAIN conflicts |->
        Symlink(conflicts[i].path,
                Resolve(F, Join(Parent(conflicts[i].path),
                                conflicts[i].points_to)))]

\* all_symlinks: the created links, then the already correct ones
RECURSIVE CorrectSymlinks(_, _)
CorrectSymlinks(F, conflicts) ==
    IF conflicts = <<>> THEN <<>>
    ELSE (IF IsCorrectConflict(Head(conflicts))
          THEN <<ReconstructSymlink(F, Head(conflicts))>>
          ELSE <<>>) \o CorrectSymlinks(F, Tail(conflicts))

\* faulty variant: a link is recorded for every conflict, correct or not
AllSymlinksAndConflicts(F, p) ==
    p.symlinks_to_create
        \o [i \in DOMAIN p.conflicts |->
               Symlink(p.conflicts[i].path,
                       p.package_dir
                           \o SubSeq(p.conflicts[i].path,
                                     Len(p.target_dir) + 1,
                                     Len(p.conflicts[i].path)))]

\* faulty variant: only the links created by this run are recorded
AllSymlinksCreatedOnly(F, p) == p.symlinks_to_create

AllSymlinks(F, p) == p.symlinks_to_create \o CorrectSymlinks(F, p.conflicts)

\* PackageEntry(name=..., package_dir=..., ...) as execute_install_plan builds it
NewEntry(F, p, now) ==
    [name |-> p.package_name,
     package_dir |-> p.package_dir,
     target_dir |-> p.target_dir,
     symlinks |-> AllSymlinks(F, p),
     installed_at |-> now]

PutPackage(registry, name, entry) ==
    [version |-> registry.version,
     packages |-> [n \in DOMAIN registry.packages \cup {name} |->
                     IF n = name THEN entry ELSE registry.packages[n]]]

Outcome(F, file, outcome, raised) ==
    [fs |-> F, regfile |-> file, outcome |-> outcome, raised |-> raised]

\* the name check: "none", or the error it ends with
NameCheck(registry, p) ==
    IF p.package_name \in DOMAIN registry.packages
    THEN LET existing_entry == registry.packages[p.package_name]
         IN  IF "package_dir" \notin DOMAIN existing_entry
             THEN "attribute_error"
             ELSE IF existing_entry.package_dir # p.package_dir
             THEN "already_installed"
             ELSE "none"
    ELSE "none"

\* faulty variant: the entry is saved whether or not the loop completed
CommitInstallAlways(made, file, registry, p, now) ==
    Outcome(made.fs,
            RegistrySave(PutPackage(registry, p.package_name,
                                    NewEntry(made.fs, p, now))),
            IF made.err # "none" THEN made.err ELSE "ok", <<>>)

\* faulty variant: the entry is put into the registry as the file holds it
\* at the time of the save, not as it was loaded
CommitInstallMerging(made, file, registry, p, now) ==
    IF made.err # "none" THEN Outcome(made.fs, file, made.err, <<>>)
    ELSE Outcome(made.fs,
                 RegistrySave(PutPackage(RegistryLoad(file).registry,
                                         p.package_name,
                                         NewEntry(made.fs, p, now))),
                 "ok", <<>>)

\* after the loop: the error it stopped with, or the entry saved
CommitInstall(made, file, registry, p, now) ==
    IF made.err # "none" THEN Outcome(made.fs, file, made.err, <<>>)
    ELSE Outcome(made.fs,
                 RegistrySave(PutPackage(registry, p.package_name,
                                         NewEntry(made.fs, p, now))),
                 "ok", <<>>)

\* faulty variant: the links are created before the conflicts are examined
ExecuteLoadedLate(F, file, loaded, p, on_conflict, now) ==
    IF loaded.err # "none" THEN Outcome(F, file, loaded.err, <<>>)
    ELSE IF NameCheck(loaded.registry, p) # "none"
    THEN Outcome(F, file, NameCheck(loaded.registry, p), <<>>)
    ELSE IF SelectSeq(p.conflicts, IsDirectoryConflict) # <<>>
    THEN Outcome(CreateLoop(F, p.symlinks_to_create, on_conflict = "force").fs,
                 file, "conflict_error",
                 SelectSeq(p.conflicts, IsDirectoryConflict))
    ELSE IF on_conflict = "abort"
            /\ SelectSeq(p.conflicts, IsBlockingConflict) # <<>>
    THEN Outcome(CreateLoop(F, p.symlinks_to_create, FALSE).fs,
                 file, "conflict_error",
                 SelectSeq(p.conflicts, IsBlockingConflict))
    ELSE CommitInstall(CreateLoop(F, p.symlinks_to_create,
                                  on_conflict = "force"),
                       file, loaded.registry, p, now)

\* execute_install_plan once the registry is loaded
ExecuteLoaded(F, file, loaded, p, on_conflict, now) ==
    IF loaded.err # "none" THEN Outcome(F, file, loaded.err, <<>>)
    ELSE IF NameCheck(loaded.registry, p) # "none"
    THEN Outcome(F, file, NameCheck(loaded.registry, p), <<>>)
    ELSE IF SelectSeq(p.conflicts, IsDirectoryConflict) # <<>>
    THEN Outcome(F, file, "conflict_error",
                 SelectSeq(p.conflicts, IsDirectoryConflict))
    ELSE IF on_conflict = "abort"
            /\ SelectSeq(p.conflicts, IsBlockingConflict) # <<>>
    THEN Outcome(F, file, "conflict_error",
                 SelectSeq(p.conflicts, IsBlockingConflict))
    ELSE CommitInstall(CreateLoop(F, p.symlinks_to_create,
                                  on_conflict = "force"),
                       file, loaded.registry, p, now)

execute_install_plan(F, file, p, on_conflict, now) ==
    ExecuteLoaded(F, file, RegistryLoad(file), p, on_conflict, now)

----------------------------------------------------------------------------
(* operations/uninstall.py: the uninstall planner. *)

NoLists ==
    [symlinks_to_remove |-> <<>>, missing_symlinks |-> <<>>,
     modified_symlinks |-> <<>>]

\* faulty variant: every symlink found at link_path is taken for removal
ClassifyStepAnyLink(F, symlink, lists) ==
    IF Lstat(F, symlink.link_path).kind = "absent"
    THEN [lists EXCEPT !.missing_symlinks = Append(@, symlink.link_path)]
    ELSE IF IsSymlink(F, symlink.link_path)
    THEN [lists EXCEPT !.symlinks_to_remove = Append(@, symlink)]
    ELSE [lists EXCEPT !.modified_symlinks = Append(@, symlink)]

\* faulty variant: every recorded symlink is taken for removal, there or not
ClassifyStepAll(F, symlink, lists) ==
    [lists EXCEPT !.symlinks_to_remove = Append(@, symlink)]

\* the loop body: the list the recorded symlink goes to
ClassifyStep(F, symlink, lists) ==
    IF Lstat(F, symlink.link_path).kind = "absent"
    THEN [lists EXCEPT !.missing_symlinks = Append(@, symlink.link_path)]
    ELSE IF SymlinkExists(F, symlink)
    THEN [lists EXCEPT !.symlinks_to_remove = Append(@, symlink)]
    ELSE [lists EXCEPT !.modified_symlinks = Append(@, symlink)]

RECURSIVE ClassifyLoop(_, _, _)
ClassifyLoop(F, symlinks, lists) ==
    IF symlinks = <<>> THEN lists
    ELSE ClassifyLoop(F, Tail(symlinks), ClassifyStep(F, Head(symlinks), lists))

\* the UninstallPlan returned
MakeUninstallPlan(package_name, target_dir, lists) ==
    [kind |-> "uninstall_plan",
     package_name |-> package_name,
     target_dir |-> target_dir,
     symlinks_to_remove |-> lists.symlinks_to_remove,
     missing_symlinks |-> lists.missing_symlinks,
     modified_symlinks |-> lists.modified_symlinks]

\* faulty variant: an unknown name gets a plan with nothing in it
PlanUninstallLoadedLenient(F, loaded, package_name) ==
    IF loaded.err # "none" THEN PlanError(loaded.err)
    ELSE IF package_name \notin DOMAIN loaded.registry.packages
    THEN MakeUninstallPlan(package_name, <<>>, NoLists)
    ELSE MakeUninstallPlan(package_name,
                           loaded.registry.packages[package_name].target_dir,
                           ClassifyLoop(F,
                               loaded.registry.packages[package_name].symlinks,
                               NoLists))

\* compute_uninstall_plan once the registry is loaded
PlanUninstallLoaded(F, loaded, package_name) ==
    IF loaded.err # "none" THEN PlanError(loaded.err)
    ELSE IF package_name \notin DOMAIN loaded.registry.packages
    THEN PlanError("package_not_found")
    ELSE MakeUninstallPlan(package_name,
                           loaded.registry.packages[package_name].target_dir,
                           ClassifyLoop(F,
                               loaded.registry.packages[package_name].symlinks,
                               NoLists))

compute_uninstall_plan(F, file, package_name) ==
    PlanUninstallLoaded(F, RegistryLoad(file), package_name)

----------------------------------------------------------------------------
(* files/symlinks.py: remove_symlink; files/cleanup.py; the uninstall       *)
(* executor of operations/uninstall.py.                                     *)

\* the error readlink() or the comparison ends with for a link that is not
\* the expected one
RemoveError(F, symlink) ==
    IF Lstat(F, symlink.link_path).kind = "absent" THEN "file_not_found"
    ELSE IF Lstat(F, symlink.link_path).kind # "link" THEN "os_error"
    ELSE "value_error"

\* faulty variant: whatever is at link_path is unlinked, unexamined
remove_symlink_unchecked(F, symlink) ==
    IF Lstat(F, symlink.link_path).kind = "absent"
    THEN [fs |-> F, err |-> "file_not_found"]
    ELSE [fs |-> Unlink(F, symlink.link_path), err |-> "none"]

\* faulty variant: a link that is not the expected one is passed over
remove_symlink_lenient(F, symlink) ==
    IF SymlinkExists(F, symlink)
    THEN [fs |-> Unlink(F, symlink.link_path), err |-> "none"]
    ELSE [fs |-> F, err |-> "none"]

remove_symlink(F, symlink) ==
    IF SymlinkExists(F, symlink)
    THEN [fs |-> Unlink(F, symlink.link_path), err |-> "none"]
    ELSE [fs |-> F, err |-> RemoveError(F, symlink)]

\* the loop over plan.symlinks_to_remove; it stops at the first error
RECURSIVE RemoveLoop(_, _)

RemoveNext(r, links) ==
    IF r.err # "none" THEN r ELSE RemoveLoop(r.fs, links)

RemoveLoop(F, links) ==
    IF links = <<>> THEN [fs |-> F, err |-> "none"]
    ELSE RemoveNext(remove_symlink(F, Head(links)), Tail(links))

\* a directory of the target tree that holds nothing
IsEmptyDir(F, dir) ==
    /\ dir \in DOMAIN F
    /\ F[dir].kind = "dir"
    /\ \A n \in DOMAIN F : Parent(n) = dir => F[n].kind = "absent"

\* faulty variant: the walk does not stop at target_dir
RECURSIVE PruneUpThrough(_, _, _)
PruneUpThrough(F, dir, target_dir) ==
    IF ~IsPrefix(target_dir, dir) \/ ~IsEmptyDir(F, dir)
    THEN F
    ELSE PruneUpThrough(Unlink(F, dir), Parent(dir), target_dir)

\* the walk from dir up towards target_dir: empty directories are deleted,
\* the first that is not ends the walk, and so does target_dir
RECURSIVE PruneUp(_, _, _)
PruneUp(F, dir, target_dir) ==
    IF dir = target_dir \/ ~IsPrefix(target_dir, dir) \/ ~IsEmptyDir(F, dir)
    THEN F
    ELSE PruneUp(Unlink(F, dir), Parent(dir), target_dir)

\* faulty variant: only the directories above the last link are pruned
remove_empty_directories_last(F, target_dir, link_paths) ==
    IF link_paths = <<>> THEN F
    ELSE PruneUp(F, Parent(link_paths[Len(link_paths)]), target_dir)

\* remove_empty_directories(target_dir, link_paths)
RECURSIVE remove_empty_directories(_, _, _)
remove_empty_directories(F, target_dir, link_paths) ==
    IF link_paths = <<>> THEN F
    ELSE remove_empty_directories(PruneUp(F, Parent(Head(link_paths)),
                                          target_dir),
                                  target_dir, Tail(link_paths))

\* del registry.packages[name]
DelPackage(registry, name) ==
    [version |-> registry.version,
     packages |-> [n \in DOMAIN registry.packages \ {name} |->
                     registry.packages[n]]]

\* faulty variant: the registry is left alone when no link was removed
ForgetPackageIfRemoved(F, file, loaded, p) ==
    IF loaded.err # "none" THEN Outcome(F, file, loaded.err, <<>>)
    ELSE IF p.package_name \notin DOMAIN loaded.registry.packages
    THEN Outcome(F, file, "key_error", <<>>)
    ELSE IF p.symlinks_to_remove = <<>> THEN Outcome(F, file, "ok", <<>>)
    ELSE Outcome(F, RegistrySave(DelPackage(loaded.registry, p.package_name)),
                 "ok", <<>>)

\* the registry update that ends execute_uninstall_plan
ForgetPackage(F, file, loaded, p) ==
    IF loaded.err # "none" THEN Outcome(F, file, loaded.err, <<>>)
    ELSE IF p.package_name \notin DOMAIN loaded.registry.packages
    THEN Outcome(F, file, "key_error", <<>>)
    ELSE Outcome(F, RegistrySave(DelPackage(loaded.registry, p.package_name)),
                 "ok", <<>>)

\* execute_uninstall_plan after the removal loop
UninstallRemoved(removed, file, p) ==
    IF removed.err # "none" THEN Outcome(removed.fs, file, removed.err, <<>>)
    ELSE ForgetPackage(remove_empty_directories(
                           removed.fs, p.target_dir,
                           [i \in DOMAIN p.symlinks_to_remove |->
                              p.symlinks_to_remove[i].link_path]),
                       file, RegistryLoad(file), p)

execute_uninstall_plan(F, file, p) ==
    UninstallRemoved(RemoveLoop(F, p.symlinks_to_remove), file, p)

----------------------------------------------------------------------------
(* The state machine: the filesystems a user can present and the planner    *)
(* and executor calls of the command line.                                  *)

\* the raw targets a link left by the user at target node n may hold: each
\* package's source for that path spelled relatively, one spelled absolutely,
\* a file outside every package and a path that does not exist
RawChoices(n) ==
    LET rel == SubSeq(n, Len(TargetDir) + 1, Len(n))
        sources == {d \o rel : d \in {d \in PackageDirs :
                                        \E e \in PackageTree(d) : e.rel = rel}}
    IN  {RelativeTo(src, Parent(n)) : src \in sources}
            \cup (IF Len(rel) = 1
                  THEN {AbsRaw(ShellOne \o rel), AbsRaw(OtherFile)}
                  ELSE {})
            \cup {AbsRaw(Gone)}

Contents(n) ==
    {Absent, RegularFile, Directory} \cup {LinkTo(r) : r \in RawChoices(n)}

\* a node exists only inside an existing directory
WellFormed(F) ==
    \A n \in DOMAIN F : \A d \in DirNodes :
        (IsPrefix(d, n) /\ d # n /\ F[n].kind # "absent") => F[d].kind = "dir"

FileSystems ==
    {F \in [TargetNodes -> UNION {Contents(n) : n \in LinkNodes}] :
        /\ \A n \in LinkNodes : F[n] \in Contents(n)
        /\ \A d \in DirNodes : F[d] \in {Absent, Directory}
        /\ WellFormed(F)}

\* the package and target arguments of the command line: every package and
\* some paths that are no package, into the target; one package into itself
\* and into a directory of its own
InstallArgs ==
    {<<a, TargetDir>> : a \in PackageDirs \cup {<<"d1", "vim", "..", "shell">>,
                                                 <<"nowhere">>, OtherFile, <<>>}}
        \cup {<<ShellOne, ShellOne>>, <<ShellOne, ShellOne \o <<"c">>>>}

NoCall == [op |-> "none"]

EmptyTarget == [n \in TargetNodes |-> Absent]

\* the registry file an earlier install of ShellOne into the empty target wrote
EarlierRegistry ==
    execute_install_plan(EmptyTarget, NoFile,
                         compute_install_plan(EmptyTarget, ShellOne, TargetDir,
                                              "abort"),
                         "abort", -1).regfile

\* Before the first invocation: no registry file yet, or the one an earlier
\* install left; the target tree in any state the user may have put it in.
Init ==
    /\ fs \in FileSystems
    /\ \/ regfile = NoFile /\ installed_from = <<>>
       \/ regfile = EarlierRegistry
          /\ installed_from = [n \in {BaseName(ShellOne)} |-> ShellOne]
    /\ plan = NoPlan
    /\ planned_with = "none"
    /\ clock = 0
    /\ last = NoCall
    /\ prev = NoCall
    /\ tmpfile = NoFile
    /\ saving = NoSave
    /\ procs = NoProcs

\* haunt install starts: compute_install_plan
ComputeInstallPlan(package_arg, target_arg, on_conflict) ==
    /\ clock < MaxClock
    /\ plan = NoPlan
    /\ plan' = compute_install_plan(fs, package_arg, target_arg, on_conflict)
    /\ planned_with' = on_conflict
    /\ UNCHANGED <<procs, tmpfile, saving, fs, regfile, clock, last, prev, installed_from>>

\* the state after an executor call that returned or raised r
RecordInstall(r, on_conflict) ==
    /\ fs' = r.fs
    /\ regfile' = r.regfile
    /\ last' = [op |-> "install",
                on_conflict |-> on_conflict,
                plan |-> plan,
                outcome |-> r.outcome,
                raised |-> r.raised,
                fs_before |-> fs,
                reg_before |-> regfile,
                from_before |-> installed_from,
                fs_after |-> r.fs,
                reg_after |-> r.regfile]
    /\ installed_from' =
           IF r.outcome = "ok"
           THEN [n \in DOMAIN installed_from \cup {plan.package_name} |->
                   IF n = plan.package_name THEN plan.package_dir
                   ELSE installed_from[n]]
           ELSE installed_from
    /\ prev' = last
    /\ UNCHANGED <<procs, tmpfile, saving>>
    /\ plan' = NoPlan
    /\ planned_with' = "none"
    /\ clock' = clock + 1

\* haunt install goes on: execute_install_plan on the plan in hand, with the
\* on_conflict the planner was given
ExecuteInstallPlan ==
    /\ clock < MaxClock
    /\ plan.kind = "plan"
    /\ RecordInstall(execute_install_plan(fs, regfile, plan, planned_with, clock),
                     planned_with)

\* the invocation ends without executing: --dry-run, or the planner raised
EndInvocation ==
    /\ plan # NoPlan
    /\ plan' = NoPlan
    /\ planned_with' = "none"
    /\ UNCHANGED <<procs, tmpfile, saving, fs, regfile, clock, last, prev, installed_from>>

Next ==
    \/ \E a \in InstallArgs, m \in Policies :
           ComputeInstallPlan(a[1], a[2], m)
    \/ ExecuteInstallPlan
    \/ EndInvocation

Spec == Init /\ [][Next]_vars

----------------------------------------------------------------------------
(* Install and uninstall together, over target trees in which the user may *)
(* keep a file of their own beside a package's link.                       *)

UserFile == TargetDir \o <<"c", "u">>

SharedFileSystems ==
    {F \in [TargetNodes \cup {UserFile} ->
               UNION {Contents(n) : n \in LinkNodes}] :
        /\ \A n \in LinkNodes : F[n] \in Contents(n)
        /\ \A d \in DirNodes : F[d] \in {Absent, Directory}
        /\ F[UserFile] \in {Absent, RegularFile}
        /\ WellFormed(F)}

\* a directory of ShellOne taken as a package of its own, and the directory
\* of the target tree it was installed into
Nested == ShellOne \o <<"c">>
NestedTarget == TargetDir \o <<"c">>

\* the registry file an earlier install of Nested into NestedTarget wrote
NestedRegistry ==
    RegistrySave(PutPackage(EmptyRegistry, BaseName(Nested),
                            [name |-> BaseName(Nested),
                             package_dir |-> Nested,
                             target_dir |-> NestedTarget,
                             symlinks |-> <<Symlink(NestedTarget \o <<"g">>,
                                                    Nested \o <<"g">>)>>,
                             installed_at |-> -1]))

\* the names given to haunt uninstall: the registered ones and one that is not
UninstallArgs ==
    {BaseName(d) : d \in PackageDirs \cup {Nested}} \cup {"nowhere"}

InitShared ==
    /\ fs \in SharedFileSystems
    /\ \/ regfile = NoFile /\ installed_from = <<>>
       \/ regfile = EarlierRegistry
          /\ installed_from = [n \in {BaseName(ShellOne)} |-> ShellOne]
       \/ regfile = NestedRegistry
          /\ installed_from = [n \in {BaseName(Nested)} |-> Nested]
    /\ plan = NoPlan
    /\ planned_with = "none"
    /\ clock = 0
    /\ last = NoCall
    /\ prev = NoCall
    /\ tmpfile = NoFile
    /\ saving = NoSave
    /\ procs = NoProcs

\* haunt uninstall starts: compute_uninstall_plan
ComputeUninstallPlan(package_name) ==
    /\ clock < MaxClock
    /\ plan = NoPlan
    /\ plan' = compute_uninstall_plan(fs, regfile, package_name)
    /\ regfile' = LoadedFile(regfile)
    /\ planned_with' = "none"
    /\ UNCHANGED <<procs, tmpfile, saving, fs, clock, last, prev, installed_from>>

\* the state after an uninstall executor call that returned or raised r
RecordUninstall(r) ==
    /\ fs' = r.fs
    /\ regfile' = r.regfile
    /\ last' = [op |-> "uninstall",
                plan |-> plan,
                outcome |-> r.outcome,
                fs_before |-> fs,
                reg_before |-> regfile,
                from_before |-> installed_from,
                fs_after |-> r.fs,
                reg_after |-> r.regfile]
    /\ installed_from' =
           IF r.outcome = "ok"
           THEN [n \in DOMAIN installed_from \ {plan.package_name} |->
                   installed_from[n]]
           ELSE installed_from
    /\ prev' = last
    /\ UNCHANGED <<procs, tmpfile, saving>>
    /\ plan' = NoPlan
    /\ planned_with' = "none"
    /\ clock' = clock + 1

\* haunt uninstall goes on: execute_uninstall_plan on the plan in hand
ExecuteUninstallPlan ==
    /\ clock < MaxClock
    /\ plan.kind = "uninstall_plan"
    /\ RecordUninstall(execute_uninstall_plan(fs, regfile, plan))

\* the packages installed beside uninstalls, each into the target
SharedInstallArgs ==
    {<<d, TargetDir>> : d \in PackageDirs} \cup {<<Nested, NestedTarget>>}

SharedNext ==
    \/ \E a \in SharedInstallArgs, m \in Policies :
           ComputeInstallPlan(a[1], a[2], m)
    \/ ExecuteInstallPlan
    \/ \E n \in UninstallArgs : ComputeUninstallPlan(n)
    \/ ExecuteUninstallPlan
    \/ EndInvocation

SpecShared == InitShared /\ [][SharedNext]_vars

----------------------------------------------------------------------------
(* One invocation racing with the user: between the planner's return and   *)
(* the executor's start the user puts the target tree in any other state.  *)

\* the plan in hand is what the planner would return for the tree as it is
PlanIsCurrent ==
    \/ /\ plan.kind = "plan"
       /\ plan = compute_install_plan(fs, plan.package_dir, plan.target_dir,
                                      planned_with)
    \/ /\ plan.kind = "uninstall_plan"
       /\ plan = compute_uninstall_plan(fs, regfile, plan.package_name)

\* what the user may put at node n
\* a link the user may make to a directory of their own
DirLink == LinkTo(AbsRaw(<<"other">>))

UserContents(n) ==
    IF n \in LinkNodes THEN Contents(n) \cup {DirLink}
    ELSE IF n \in DirNodes THEN {Absent, Directory}
    ELSE {Absent, RegularFile}

\* the user's change, made once, behind the back of the invocation: one path
\* of the target tree made into something else
Tamper ==
    /\ PlanIsCurrent
    /\ \E n \in DOMAIN fs : \E c \in UserContents(n) \ {fs[n]} :
           /\ WellFormed([fs EXCEPT ![n] = c])
           /\ fs' = [fs EXCEPT ![n] = c]
    /\ UNCHANGED <<procs, tmpfile, saving, regfile, plan, planned_with, clock, last, prev,
                   installed_from>>

RaceNext ==
    \/ clock = 0 /\ SharedNext
    \/ Tamper

SpecRace == InitShared /\ [][RaceNext]_vars

----------------------------------------------------------------------------
(* The registry by itself: registries saved and registry files loaded, the  *)
(* files being ones haunt wrote or ones written by other hands.             *)

\* the versions a registry file may carry: the supported ones and one newer
MaxVersion == 2

LinkF == Symlink(TargetDir \o <<"f">>, ShellOne \o <<"f">>)
LinkG == Symlink(TargetDir \o <<"c", "g">>, ShellOne \o <<"c", "g">>)

\* entries as execute_install_plan builds them
SampleEntries(name) ==
    IF name = BaseName(ShellOne)
    THEN {[name |-> name, package_dir |-> d, target_dir |-> TargetDir,
           symlinks |-> l, installed_at |-> 0] :
              d \in {ShellOne, ShellTwo},
              l \in {<<>>, <<LinkF, LinkG>>, <<LinkG, LinkF>>}}
    ELSE {[name |-> name, package_dir |-> Vim, target_dir |-> TargetDir,
           symlinks |-> <<LinkF>>, installed_at |-> 1]}

SampleNames == {BaseName(ShellOne), BaseName(Vim)}

\* the registries held in memory: a version load accepts, any of the names
Registries ==
    {[version |-> v, packages |-> pk] :
        v \in 0..REGISTRY_VERSION,
        pk \in UNION {{f \in [ns -> UNION {SampleEntries(n) : n \in ns}] :
                          \A n \in ns : f[n] \in SampleEntries(n)} :
                      ns \in SUBSET SampleNames}}

\* packages content that from_dict cannot read: an entry without its
\* symlinks, an entry with a symlink without its source_path
MalformedPackages ==
    {[n \in {BaseName(ShellOne)} |->
        [name |-> n, target_dir |-> PathStr(TargetDir), installed_at |-> 0]],
     [n \in {BaseName(ShellOne)} |->
        [name |-> n, target_dir |-> PathStr(TargetDir),
         symlinks |-> <<[link_path |-> PathStr(TargetDir \o <<"f">>)]>>,
         installed_at |-> 0]]}

ValidPackages == {RegistryToDict(r).packages : r \in Registries}

FilePackages == ValidPackages \cup MalformedPackages

\* the JSON objects a registry file may hold
FileDicts ==
    {<<>>}
    \cup {[version |-> v] : v \in 0..MaxVersion}
    \cup {[packages |-> pk] : pk \in FilePackages}
    \cup {[version |-> v, packages |-> pk] :
             v \in 0..MaxVersion, pk \in FilePackages}

RegistryFiles == {NoFile} \cup {[exists |-> TRUE, data |-> d] : d \in FileDicts}

InitRegistry ==
    /\ regfile \in RegistryFiles
    /\ fs = EmptyTarget
    /\ installed_from = <<>>
    /\ plan = NoPlan
    /\ planned_with = "none"
    /\ clock = 0
    /\ last = NoCall
    /\ prev = NoCall
    /\ tmpfile = NoFile
    /\ saving = NoSave
    /\ procs = NoProcs

\* registry.save()
SaveRegistry(registry) ==
    /\ clock < MaxClock
    /\ regfile' = RegistrySave(registry)
    /\ last' = [op |-> "save", registry |-> registry,
                file |-> RegistrySave(registry)]
    /\ prev' = last
    /\ clock' = clock + 1
    /\ UNCHANGED <<procs, tmpfile, saving, fs, plan, planned_with, installed_from>>

\* Registry.load()
LoadRegistry ==
    /\ clock < MaxClock
    /\ last' = [op |-> "load", file |-> regfile, during |-> saving.step,
                result |-> RegistryLoad(regfile)]
    /\ prev' = last
    /\ clock' = clock + 1
    /\ regfile' = LoadedFile(regfile)
    /\ UNCHANGED <<procs, tmpfile, saving, fs, plan, planned_with, installed_from>>

RegistryNext ==
    \/ \E registry \in Registries : SaveRegistry(registry)
    \/ LoadRegistry

SpecRegistry == InitRegistry /\ [][RegistryNext]_vars

----------------------------------------------------------------------------
(* Registry.save statement by statement, with a crash of the saving process  *)
(* after any statement and a reader loading the registry file at any point. *)

\* the registry files haunt itself has written, or none
SavedFiles == {NoFile} \cup {RegistrySave(r) : r \in Registries}

\* a temporary file a crashed save left behind
StaleTemp == TextFile(RegistryToDict(EmptyRegistry), 1)

InitSave ==
    /\ regfile \in SavedFiles
    /\ tmpfile \in {NoFile, StaleTemp}
    /\ saving = NoSave
    /\ procs = NoProcs
    /\ fs = EmptyTarget
    /\ installed_from = <<>>
    /\ plan = NoPlan
    /\ planned_with = "none"
    /\ clock = 0
    /\ last = NoCall
    /\ prev = NoCall

\* registry.save() is called
BeginSave(registry) ==
    /\ saving.step = "idle"
    /\ saving' = [step |-> "mkdir", registry |-> registry, before |-> regfile,
                  written |-> 0]
    /\ UNCHANGED <<procs, fs, regfile, tmpfile, plan, planned_with, clock, last, prev,
                   installed_from>>

\* path.parent.mkdir(parents=True, exist_ok=True)
MkdirParent ==
    /\ saving.step = "mkdir"
    /\ saving' = [saving EXCEPT !.step = "open"]
    /\ UNCHANGED <<procs, fs, regfile, tmpfile, plan, planned_with, clock, last, prev,
                   installed_from>>

\* temp_path.write_text opens the temporary file, truncating what it held
OpenTemp ==
    /\ saving.step = "open"
    /\ tmpfile' = TextFile(RegistryToDict(saving.registry), 0)
    /\ saving' = [saving EXCEPT !.step = "write"]
    /\ UNCHANGED <<procs, fs, regfile, plan, planned_with, clock, last, prev,
                   installed_from>>

\* faulty variant: the rename follows the first piece written
AfterWriteEarly(written) == "replace"

\* temp_path.replace(path) runs once write_text has returned
AfterWrite(written) == IF written = MaxChunks THEN "replace" ELSE "write"

\* temp_path.write_text writes the next piece of the text
WriteTemp ==
    /\ saving.step = "write"
    /\ tmpfile' = TextFile(RegistryToDict(saving.registry), saving.written + 1)
    /\ saving' = [saving EXCEPT !.written = saving.written + 1,
                                !.step = AfterWrite(saving.written + 1)]
    /\ UNCHANGED <<procs, fs, regfile, plan, planned_with, clock, last, prev,
                   installed_from>>

\* temp_path.replace(path): one rename
ReplaceTemp ==
    /\ saving.step = "replace"
    /\ regfile' = tmpfile
    /\ tmpfile' = NoFile
    /\ saving' = [saving EXCEPT !.step = "done"]
    /\ UNCHANGED <<procs, fs, plan, planned_with, clock, last, prev, installed_from>>

\* the saving process dies before its next statement
Crash ==
    /\ saving.step \in {"mkdir", "open", "write", "replace"}
    /\ saving' = [saving EXCEPT !.step = "crashed"]
    /\ UNCHANGED <<procs, fs, regfile, tmpfile, plan, planned_with, clock, last, prev,
                   installed_from>>

SaveNext ==
    \/ \E registry \in Registries : BeginSave(registry)
    \/ MkdirParent
    \/ OpenTemp
    \/ WriteTemp
    \/ ReplaceTemp
    \/ Crash
    \/ LoadRegistry

SpecSave == InitSave /\ [][SaveNext]_vars

----------------------------------------------------------------------------
(* discover_files as the walk it is, over package trees that hold files,     *)
(* directories, and a symlink to a directory outside the package.            *)

\* the package directory walked and the paths below it whose content varies
Walked == ShellTwo
WalkedNodes == {Walked \o r : r \in {<<"f">>, <<"c">>, <<"c", "g">>, <<"l">>}}
FacingNodes == {TargetDir \o <<"f">>, TargetDir \o <<"l">>}

\* package trees: a file, a directory with a file or an empty directory in
\* it, a file or a link to a directory; and what faces them in the target
WalkedTrees ==
    {F \in [WalkedNodes \cup FacingNodes -> {Absent, RegularFile, Directory, DirLink}] :
        /\ F[Walked \o <<"f">>] \in {Absent, RegularFile}
        /\ F[Walked \o <<"c">>] \in {Absent, Directory}
        /\ F[Walked \o <<"c", "g">>] \in {Absent, RegularFile, Directory}
        /\ F[Walked \o <<"c">>] = Absent => F[Walked \o <<"c", "g">>] = Absent
        /\ F[Walked \o <<"l">>] \in {Absent, RegularFile, DirLink}
        /\ \A n \in FacingNodes : F[n] \in {Absent, RegularFile}}

\* the orders in which a directory may list its entries
ListingOrders == {"ascending", "descending"}

RECURSIVE Reverse(_)
Reverse(seq) == IF seq = <<>> THEN <<>> ELSE Append(Reverse(Tail(seq)), Head(seq))

\* the entries of the directory at package_dir / rel, as paths relative to
\* package_dir, in the order the directory lists them
ListDir(F, package_dir, rel, order) ==
    IF order = "ascending"
    THEN Sorted({rel \o <<BaseName(n)>> :
                    n \in {u \in DOMAIN F \cup {OtherFile} :
                             /\ Parent(u) = Resolve(F, package_dir \o rel)
                             /\ Lstat(F, u).kind # "absent"}})
    ELSE Reverse(Sorted({rel \o <<BaseName(n)>> :
                    n \in {u \in DOMAIN F \cup {OtherFile} :
                             /\ Parent(u) = Resolve(F, package_dir \o rel)
                             /\ Lstat(F, u).kind # "absent"}}))

\* the node an entry is, the directory holding it reached through links
EntryNode(F, package_dir, rel) ==
    Lstat(F, Append(Resolve(F, package_dir \o Parent(rel)), BaseName(rel)))

\* faulty variant: the walk follows symlinks to directories
IsWalkDirFollowing(F, package_dir, rel) ==
    IsDir(F, Append(Resolve(F, package_dir \o Parent(rel)), BaseName(rel)))

\* Path.walk() puts an entry in dirnames when it is a real directory; a
\* symlink, to a directory too, goes to filenames
IsWalkDir(F, package_dir, rel) == EntryNode(F, package_dir, rel).kind = "dir"

RECURSIVE WalkEntries(_, _, _, _)
\* package_dir.walk() from the directory at rel, top down: the filenames of a
\* directory, then the walks of its dirnames
WalkFrom(F, package_dir, rel, order) ==
    WalkEntries(F, package_dir, ListDir(F, package_dir, rel, order), order)

\* the entries of one directory: the files first, then into each directory
WalkEntries(F, package_dir, entries, order) ==
    IF entries = <<>> THEN <<>>
    ELSE IF IsWalkDir(F, package_dir, Head(entries))
    THEN WalkEntries(F, package_dir, Tail(entries), order)
             \o WalkFrom(F, package_dir, Head(entries), order)
    ELSE <<Head(entries)>> \o WalkEntries(F, package_dir, Tail(entries), order)

\* sorted(files) of a list
RECURSIVE InsertSorted(_, _)
InsertSorted(x, seq) ==
    IF seq = <<>> THEN <<x>>
    ELSE IF PathLess(Head(seq), x) \/ Head(seq) = x
    THEN <<Head(seq)>> \o InsertSorted(x, Tail(seq))
    ELSE <<x>> \o seq

RECURSIVE SortedList(_)
SortedList(seq) ==
    IF seq = <<>> THEN <<>> ELSE InsertSorted(Head(seq), SortedList(Tail(seq)))

\* discover_files(package_dir) on the tree F, the directories listing in order
discover_walk(F, package_dir, order) ==
    SortedList(WalkFrom(F, package_dir, <<>>, order))

InitDiscover ==
    /\ fs \in WalkedTrees
    /\ regfile = NoFile
    /\ installed_from = <<>>
    /\ plan = NoPlan
    /\ planned_with = "none"
    /\ clock = 0
    /\ last = NoCall
    /\ prev = NoCall
    /\ tmpfile = NoFile
    /\ saving = NoSave
    /\ procs = NoProcs

\* discover_files is called, its directories listing in the order given
Discover(order) ==
    /\ last.op = "none"
    /\ last' = [op |-> "discover", order |-> order,
                walked |-> WalkFrom(fs, Walked, <<>>, order),
                files |-> discover_walk(fs, Walked, order)]
    /\ UNCHANGED <<procs, fs, regfile, plan, planned_with, clock, prev, installed_from,
                   tmpfile, saving>>

\* the planner's loop over the files discovered
PlanDiscovered(on_conflict) ==
    /\ last.op = "discover"
    /\ plan = NoPlan
    /\ plan' = MakePlan(Walked, TargetDir,
                        PlanLoop(fs, Walked, TargetDir, on_conflict, last.files,
                                 [symlinks_to_create |-> <<>>,
                                  conflicts |-> <<>>]))
    /\ planned_with' = on_conflict
    /\ UNCHANGED <<procs, fs, regfile, clock, last, prev, installed_from, tmpfile,
                   saving>>

DiscoverNext ==
    \/ \E order \in ListingOrders : Discover(order)
    \/ \E m \in Policies : PlanDiscovered(m)

SpecDiscover == InitDiscover /\ [][DiscoverNext]_vars

----------------------------------------------------------------------------
(* An install that is interrupted: the process is stopped inside            *)
(* execute_install_plan after some of the links have been created and      *)
(* before the registry is saved; the command is then run again.            *)

\* execute_install_plan stopped after the first k links of symlinks_to_create
InterruptLoaded(F, file, loaded, p, on_conflict, k) ==
    IF loaded.err # "none" THEN Outcome(F, file, loaded.err, <<>>)
    ELSE IF NameCheck(loaded.registry, p) # "none"
    THEN Outcome(F, file, NameCheck(loaded.registry, p), <<>>)
    ELSE IF SelectSeq(p.conflicts, IsDirectoryConflict) # <<>>
    THEN Outcome(F, file, "conflict_error",
                 SelectSeq(p.conflicts, IsDirectoryConflict))
    ELSE IF on_conflict = "abort"
            /\ SelectSeq(p.conflicts, IsBlockingConflict) # <<>>
    THEN Outcome(F, file, "conflict_error",
                 SelectSeq(p.conflicts, IsBlockingConflict))
    ELSE LET made == CreateLoop(F, SubSeq(p.symlinks_to_create, 1, k),
                                on_conflict = "force")
         IN  Outcome(made.fs, file,
                     IF made.err # "none" THEN made.err ELSE "interrupted",
                     <<>>)

\* haunt install is stopped in the loop, k links made, nothing saved
InterruptInstallPlan(k) ==
    /\ clock < MaxClock
    /\ plan.kind = "plan"
    /\ k \in 0..Len(plan.symlinks_to_create)
    /\ LET r == InterruptLoaded(fs, regfile, RegistryLoad(regfile), plan,
                                planned_with, k)
       IN  /\ r.outcome = "interrupted"
           /\ fs' = r.fs
           /\ regfile' = LoadedFile(r.regfile)
           /\ last' = [op |-> "interrupted",
                       on_conflict |-> planned_with,
                       plan |-> plan,
                       made |-> k,
                       would |-> execute_install_plan(fs, regfile, plan,
                                                      planned_with, clock),
                       fs_before |-> fs,
                       reg_before |-> regfile,
                       fs_after |-> r.fs,
                       reg_after |-> r.regfile]
    /\ prev' = last
    /\ plan' = NoPlan
    /\ planned_with' = "none"
    /\ clock' = clock + 1
    /\ UNCHANGED <<procs, tmpfile, saving, installed_from>>

InterruptedNext ==
    \/ \E d \in PackageDirs, m \in Policies :
           ComputeInstallPlan(d, TargetDir, m)
    \/ ExecuteInstallPlan
    \/ \E k \in 0..Cardinality(TargetNodes) : InterruptInstallPlan(k)
    \/ EndInvocation

SpecInterrupted == Init /\ [][InterruptedNext]_vars

----------------------------------------------------------------------------
(* Two installs side by side on one registry file. Nothing locks the file: *)
(* each invocation loads it, makes its links and saves what it loaded with  *)
(* its own entry put in, and the steps of the two interleave freely.        *)

Invocations == {"one", "two"}

\* the package each invocation installs into the target
PackageOf == [one |-> ShellOne, two |-> Vim]

NotStarted ==
    [pc |-> "idle", on_conflict |-> "none", plan |-> NoPlan,
     held |-> EmptyRegistry, loaded_at |-> 0, saved_at |-> 0,
     outcome |-> "none"]

\* execute_install_plan up to the loop: the error it raises, or "none"
LoadChecks(loaded, p, on_conflict) ==
    IF loaded.err # "none" THEN loaded.err
    ELSE IF NameCheck(loaded.registry, p) # "none"
    THEN NameCheck(loaded.registry, p)
    ELSE IF SelectSeq(p.conflicts, IsDirectoryConflict) # <<>>
    THEN "conflict_error"
    ELSE IF on_conflict = "abort"
            /\ SelectSeq(p.conflicts, IsBlockingConflict) # <<>>
    THEN "conflict_error"
    ELSE "none"

InitConcurrent ==
    /\ fs \in FileSystems
    /\ regfile = NoFile
    /\ installed_from = <<>>
    /\ plan = NoPlan
    /\ planned_with = "none"
    /\ clock = 0
    /\ last = NoCall
    /\ prev = NoCall
    /\ tmpfile = NoFile
    /\ saving = NoSave
    /\ procs = [i \in Invocations |-> NotStarted]

\* invocation i: compute_install_plan
ProcPlan(i, on_conflict) ==
    /\ procs[i].pc = "idle"
    /\ LET p == compute_install_plan(fs, PackageOf[i], TargetDir, on_conflict)
       IN  procs' = [procs EXCEPT ![i] =
                        [@ EXCEPT !.pc = IF p.kind = "plan" THEN "planned"
                                         ELSE "done",
                                  !.outcome = IF p.kind = "plan" THEN "none"
                                              ELSE p.kind,
                                  !.plan = p,
                                  !.on_conflict = on_conflict]]
    /\ UNCHANGED <<fs, regfile, plan, planned_with, clock, last, prev,
                   installed_from, tmpfile, saving>>

\* invocation i: Registry.load and the checks before the loop
ProcLoad(i) ==
    /\ procs[i].pc = "planned"
    /\ LET loaded == RegistryLoad(regfile)
           err == LoadChecks(loaded, procs[i].plan, procs[i].on_conflict)
       IN  procs' = [procs EXCEPT ![i] =
                        [@ EXCEPT !.pc = IF err = "none" THEN "loaded"
                                         ELSE "done",
                                  !.outcome = err,
                                  !.held = loaded.registry,
                                  !.loaded_at = clock + 1]]
    /\ regfile' = LoadedFile(regfile)
    /\ clock' = clock + 1
    /\ UNCHANGED <<fs, plan, planned_with, last, prev, installed_from,
                   tmpfile, saving>>

\* invocation i: the loop over plan.symlinks_to_create
ProcCreate(i) ==
    /\ procs[i].pc = "loaded"
    /\ LET made == CreateLoop(fs, procs[i].plan.symlinks_to_create,
                              procs[i].on_conflict = "force")
       IN  /\ fs' = made.fs
           /\ procs' = [procs EXCEPT ![i] =
                           [@ EXCEPT !.pc = IF made.err = "none" THEN "linked"
                                            ELSE "done",
                                     !.outcome = made.err]]
    /\ UNCHANGED <<regfile, plan, planned_with, clock, last, prev,
                   installed_from, tmpfile, saving>>

\* invocation i: its entry put into the registry it loaded, and saved
ProcSave(i) ==
    /\ procs[i].pc = "linked"
    /\ regfile' = CommitInstall([fs |-> fs, err |-> "none"], regfile,
                                procs[i].held, procs[i].plan, clock).regfile
    /\ procs' = [procs EXCEPT ![i] =
                    [@ EXCEPT !.pc = "done",
                              !.outcome = "ok",
                              !.saved_at = clock + 1]]
    /\ clock' = clock + 1
    /\ UNCHANGED <<fs, plan, planned_with, last, prev, installed_from,
                   tmpfile, saving>>

ConcurrentNext ==
    \E i \in Invocations :
        \/ \E m \in Policies : ProcPlan(i, m)
        \/ ProcLoad(i)
        \/ ProcCreate(i)
        \/ ProcSave(i)

SpecConcurrent == InitConcurrent /\ [][ConcurrentNext]_vars

----------------------------------------------------------------------------
(* Install and uninstall on a registry file that other hands have damaged: *)
(* cut short, stripped of a key, or written by a newer haunt.              *)

\* the registry file of an earlier install, damaged in each of the ways
\* Registry.load rejects
BrokenFiles ==
    {TextFile(EarlierRegistry.data, 1),
     [exists |-> TRUE, data |-> [packages |-> EarlierRegistry.data.packages]],
     [exists |-> TRUE, data |-> [version |-> REGISTRY_VERSION]],
     [exists |-> TRUE,
      data |-> [version |-> REGISTRY_VERSION + 1,
                packages |-> EarlierRegistry.data.packages]]}
        \cup {[exists |-> TRUE,
               data |-> [version |-> REGISTRY_VERSION, packages |-> pk]] :
                  pk \in MalformedPackages}

InitBroken ==
    /\ fs \in FileSystems
    /\ \/ regfile \in BrokenFiles /\ installed_from = <<>>
       \/ regfile = EarlierRegistry
          /\ installed_from = [n \in {BaseName(ShellOne)} |-> ShellOne]
    /\ plan = NoPlan
    /\ planned_with = "none"
    /\ clock = 0
    /\ last = NoCall
    /\ prev = NoCall
    /\ tmpfile = NoFile
    /\ saving = NoSave
    /\ procs = NoProcs

\* other hands write the registry file, between two steps of haunt
DamageRegistry(file) ==
    /\ regfile \notin BrokenFiles
    /\ regfile' = file
    /\ UNCHANGED <<fs, plan, planned_with, clock, last, prev, installed_from,
                   tmpfile, saving, procs>>

BrokenNext ==
    \/ \E d \in PackageDirs, m \in Policies :
           ComputeInstallPlan(d, TargetDir, m)
    \/ ExecuteInstallPlan
    \/ \E n \in {BaseName(d) : d \in PackageDirs} : ComputeUninstallPlan(n)
    \/ ExecuteUninstallPlan
    \/ EndInvocation
    \/ \E file \in BrokenFiles : DamageRegistry(file)

SpecBroken == InitBroken /\ [][BrokenNext]_vars

----------------------------------------------------------------------------
(* An uninstall that stops part of the way: on the error of a link changed  *)
(* behind its back, or stopped from outside, after some links are gone and  *)
(* before the registry entry is deleted; the command is then run again.     *)

\* execute_uninstall_plan stopped after the first k links of
\* symlinks_to_remove, the empty directories pruned or not, nothing saved
InterruptUninstall(F, file, p, k, pruned) ==
    LET removed == RemoveLoop(F, SubSeq(p.symlinks_to_remove, 1, k))
    IN  IF removed.err # "none"
        THEN Outcome(removed.fs, file, removed.err, <<>>)
        ELSE Outcome(IF pruned
                     THEN remove_empty_directories(
                              removed.fs, p.target_dir,
                              [i \in DOMAIN p.symlinks_to_remove |->
                                 p.symlinks_to_remove[i].link_path])
                     ELSE removed.fs,
                     file, "interrupted", <<>>)

\* haunt uninstall is stopped in or after the loop, before the registry
InterruptUninstallPlan(k, pruned) ==
    /\ clock < MaxClock
    /\ plan.kind = "uninstall_plan"
    /\ k \in 0..Len(plan.symlinks_to_remove)
    /\ pruned => k = Len(plan.symlinks_to_remove)
    /\ InterruptUninstall(fs, regfile, plan, k, pruned).outcome = "interrupted"
    /\ RecordUninstall(InterruptUninstall(fs, regfile, plan, k, pruned))

PartialNext ==
    \/ \E n \in UninstallArgs : ComputeUninstallPlan(n)
    \/ ExecuteUninstallPlan
    \/ \E k \in 0..Cardinality(LinkNodes), pruned \in BOOLEAN :
           InterruptUninstallPlan(k, pruned)
    \/ EndInvocation
    \/ clock = 0 /\ Tamper

SpecPartial == InitShared /\ [][PartialNext]_vars

----------------------------------------------------------------------------
(* Properties of install. *)

Range(seq) == {seq[i] : i \in DOMAIN seq}
LinkPathsOf(links) == {links[i].link_path : i \in DOMAIN links}
ConflictPathsOf(conflicts) == {conflicts[i].path : i \in DOMAIN conflicts}
ConflictTypesOf(conflicts) == {conflicts[i].type : i \in DOMAIN conflicts}
CorrectPathsOf(conflicts) ==
    {conflicts[i].path : i \in {j \in DOMAIN conflicts :
                                   conflicts[j].type = "CORRECT_SYMLINK"}}

\* the link the planner considers for the file at rel of plan p's package
PlannedLink(p, rel) == Symlink(p.target_dir \o rel, p.package_dir \o rel)

InstallDone == last.op = "install"

\* executor call c found its package name registered to another directory
InstalledElsewhere(c) ==
    /\ c.plan.package_name \in DOMAIN c.from_before
    /\ c.from_before[c.plan.package_name] # c.plan.package_dir

\* executor call c found its package name registered to its own directory
InstalledFromSame(c) ==
    /\ c.plan.package_name \in DOMAIN c.from_before
    /\ c.from_before[c.plan.package_name] = c.plan.package_dir

\* two registry files equal in every field but installed_at
SameButTimestamp(a, b) ==
    /\ a.exists /\ b.exists
    /\ a.data.version = b.data.version
    /\ DOMAIN a.data.packages = DOMAIN b.data.packages
    /\ \A n \in DOMAIN a.data.packages :
           /\ a.data.packages[n].name = b.data.packages[n].name
           /\ a.data.packages[n].target_dir = b.data.packages[n].target_dir
           /\ a.data.packages[n].symlinks = b.data.packages[n].symlinks

\* C1: a second install from the same package_dir to the same target_dir
\* under the same policy, right after a successful one, does not raise and
\* leaves a registry equal to the first run's in all but installed_at.
C1_InstallIdempotent ==
    (/\ InstallDone
     /\ prev.op = "install"
     /\ prev.outcome = "ok"
     /\ last.plan.package_dir = prev.plan.package_dir
     /\ last.plan.target_dir = prev.plan.target_dir
     /\ last.on_conflict = prev.on_conflict)
    => /\ last.outcome = "ok"
       /\ SameButTimestamp(last.reg_after, prev.reg_after)

\* C2: when execute_install_plan ends with an error of the name check or a
\* conflict error, the target tree and the registry file are what they were
\* before the call; a planner call that ends with a validation error changes
\* neither.
C2_ValidationBeforeMutation ==
    /\ [](InstallDone
          /\ last.outcome \in {"already_installed", "attribute_error",
                               "conflict_error"}
          => last.fs_after = last.fs_before
             /\ last.reg_after = last.reg_before)
    /\ [][plan.kind = "none" /\ plan'.kind = "error"
          => fs' = fs /\ regfile' = regfile]_vars

\* C2 happens: a conflict error under force for a plan that had links to make
C2_Witness ==
    /\ InstallDone
    /\ last.outcome = "conflict_error"
    /\ last.on_conflict = "force"
    /\ last.plan.symlinks_to_create # <<>>
    /\ \E s \in Range(last.plan.symlinks_to_create) :
           last.fs_before[s.link_path].kind = "file"

\* C3: a plan holding a Directory conflict makes execute_install_plan raise a
\* conflict error under abort, skip and force alike, with no link created and
\* nothing written to the registry (a name registered to another directory,
\* which the name check rejects first, set aside).
C3_DirectoryConflictsFatal ==
    (/\ InstallDone
     /\ "DIRECTORY" \in ConflictTypesOf(last.plan.conflicts)
     /\ ~InstalledElsewhere(last))
    => /\ last.outcome = "conflict_error"
       /\ last.fs_after = last.fs_before
       /\ last.reg_after = last.reg_before

\* C4: under abort, execute_install_plan raises a conflict error exactly when
\* the plan holds a conflict that is not CorrectSymlink, and a plan whose
\* conflicts are all CorrectSymlink executes successfully (a name registered
\* to another directory set aside).
C4_AbortSemantics ==
    (/\ InstallDone
     /\ last.on_conflict = "abort"
     /\ ~InstalledElsewhere(last))
    => /\ (last.outcome = "conflict_error")
              <=> (ConflictTypesOf(last.plan.conflicts)
                       \ {"CORRECT_SYMLINK"} # {})
       /\ ConflictTypesOf(last.plan.conflicts) \subseteq {"CORRECT_SYMLINK"}
              => last.outcome = "ok"

\* C5: under skip, a plan without Directory conflicts raises no conflict
\* error: execution makes exactly the links of the paths without conflict,
\* leaves every conflicting path as it was and writes the registry entry (a
\* name registered to another directory set aside).
C5_SkipSemantics ==
    (/\ InstallDone
     /\ last.on_conflict = "skip"
     /\ "DIRECTORY" \notin ConflictTypesOf(last.plan.conflicts)
     /\ ~InstalledElsewhere(last))
    => /\ last.outcome = "ok"
       /\ \A n \in LinkNodes :
              IF n \in LinkPathsOf(last.plan.symlinks_to_create)
              THEN /\ last.fs_before[n].kind = "absent"
                   /\ last.fs_after[n].kind = "link"
              ELSE last.fs_after[n] = last.fs_before[n]
       /\ \A x \in Range(last.plan.symlinks_to_create) :
              SymlinkExists(last.fs_after, x)
       /\ last.reg_after.exists
       /\ last.plan.package_name \in DOMAIN last.reg_after.data.packages
       /\ last.reg_after.data.packages[last.plan.package_name].installed_at
              = clock - 1

C7_NoConflictPlan ==
    (/\ plan.kind = "plan"
     /\ \A e \in PackageTree(plan.package_dir) :
            Lstat(fs, plan.target_dir \o e.rel).kind = "absent")
    => /\ Len(plan.symlinks_to_create)
              = Cardinality(PackageTree(plan.package_dir))
       /\ Range(plan.symlinks_to_create)
              = {PlannedLink(plan, e.rel) : e \in PackageTree(plan.package_dir)}
       /\ plan.conflicts = <<>>

\* C7 happens: a package of two files, one in a subdirectory, planned under
\* force into a target that holds neither path
C7_Witness ==
    /\ plan.kind = "plan"
    /\ planned_with = "force"
    /\ Cardinality(PackageTree(plan.package_dir)) = 2
    /\ \A e \in PackageTree(plan.package_dir) :
           Lstat(fs, plan.target_dir \o e.rel).kind = "absent"
    /\ Len(plan.symlinks_to_create) = 2

C9_RegistryEntryLinks ==
    (InstallDone /\ last.outcome = "ok") =>
        LET recorded ==
                Range(last.reg_after.data
                          .packages[last.plan.package_name].symlinks)
        IN  /\ {StrPath(r.link_path) : r \in recorded}
                   = LinkPathsOf(last.plan.symlinks_to_create)
                         \cup CorrectPathsOf(last.plan.conflicts)
            /\ \A r \in recorded :
                   \E e \in PackageTree(last.plan.package_dir) :
                       /\ StrPath(r.link_path) = last.plan.target_dir \o e.rel
                       /\ StrPath(r.source_path) = last.plan.package_dir \o e.rel

\* C10: execute_install_plan ends with the already-installed error exactly
\* when the registry file holds an entry under plan.package_name written by
\* an install from another package_dir; when the entry was written from the
\* plan's package_dir the name check lets the call through, and a call that
\* then succeeds replaces the entry.
C10_NameCollision ==
    InstallDone =>
        /\ (last.outcome = "already_installed") <=> InstalledElsewhere(last)
        /\ InstalledFromSame(last) =>
               /\ last.outcome \in {"ok", "conflict_error"}
               /\ last.outcome = "ok" =>
                      last.reg_after.data.packages[last.plan.package_name]
                          .installed_at = clock - 1

----------------------------------------------------------------------------
(* Properties of install under a race, of uninstall and of the registry. *)

\* C11: execute_install_plan writes the registry file only after every link
\* of symlinks_to_create is in place; when a creation fails in the loop the
\* registry file is what it was before the call, whatever the loop had
\* already created.
C11_RegistryWrittenLast ==
    InstallDone =>
        /\ last.outcome \in {"file_exists", "is_a_directory"} =>
               last.reg_after = last.reg_before
        /\ last.reg_after # last.reg_before =>
               /\ last.outcome = "ok"
               /\ \A x \in Range(last.plan.symlinks_to_create) :
                      SymlinkExists(last.fs_after, x)

\* C11 happens: the second creation of the loop fails after the first one
\* made its link, which stays on disk
C11_Witness ==
    /\ InstallDone
    /\ last.outcome = "file_exists"
    /\ \E x \in Range(last.plan.symlinks_to_create) :
           /\ last.fs_before[x.link_path].kind = "absent"
           /\ last.fs_after[x.link_path].kind = "link"

UninstallPlanned == plan.kind = "uninstall_plan"
UninstallDone == last.op = "uninstall"

\* the symlinks the registry file records for a package name
RecordedSymlinks(file, name) ==
    RegistryLoad(file).registry.packages[name].symlinks

\* the link at x.link_path is there and resolves to the recorded source
LinkIntact(F, x) ==
    /\ Lstat(F, x.link_path).kind = "link"
    /\ Resolve(F, x.link_path) = Resolve(F, x.source_path)

\* C12: compute_uninstall_plan puts every recorded symlink in exactly one
\* list: symlinks_to_remove when the link is there and resolves to the
\* recorded source, missing_symlinks when nothing is at link_path,
\* modified_symlinks otherwise; the lists hold nothing else and nothing twice.
C12_UninstallPartition ==
    UninstallPlanned =>
        LET recorded == RecordedSymlinks(regfile, plan.package_name)
        IN  /\ \A x \in Range(recorded) :
                   /\ x \in Range(plan.symlinks_to_remove)
                          <=> LinkIntact(fs, x)
                   /\ x.link_path \in Range(plan.missing_symlinks)
                          <=> Lstat(fs, x.link_path).kind = "absent"
                   /\ x \in Range(plan.modified_symlinks)
                          <=> /\ Lstat(fs, x.link_path).kind # "absent"
                              /\ ~LinkIntact(fs, x)
            /\ Range(plan.symlinks_to_remove) \cup Range(plan.modified_symlinks)
                   \subseteq Range(recorded)
            /\ Range(plan.missing_symlinks) \subseteq LinkPathsOf(recorded)
            /\ Len(plan.symlinks_to_remove) + Len(plan.missing_symlinks)
                   + Len(plan.modified_symlinks) = Len(recorded)
            /\ LinkPathsOf(plan.symlinks_to_remove)
                   \cap LinkPathsOf(plan.modified_symlinks) = {}
            /\ (LinkPathsOf(plan.symlinks_to_remove)
                    \cup LinkPathsOf(plan.modified_symlinks))
                   \cap Range(plan.missing_symlinks) = {}

\* C12 happens: a plan with one link to remove and one found modified, the
\* latter a symlink pointing elsewhere
C12_Witness ==
    /\ UninstallPlanned
    /\ plan.symlinks_to_remove # <<>>
    /\ \E x \in Range(plan.modified_symlinks) :
           Lstat(fs, x.link_path).kind = "link"

\* uninstall call c unlinked the link at n, which was the recorded one
UnlinkedIntact(c, n) ==
    /\ c.fs_after[n] = Absent
    /\ \E x \in Range(c.plan.symlinks_to_remove) :
           x.link_path = n /\ LinkIntact(c.fs_before, x)

\* uninstall call c deleted the directory at n: one above a link it removed,
\* below target_dir, and holding nothing any more
PrunedEmpty(c, n) ==
    /\ c.fs_before[n].kind = "dir"
    /\ c.fs_after[n] = Absent
    /\ IsPrefix(c.plan.target_dir, n) /\ n # c.plan.target_dir
    /\ \A m \in DOMAIN c.fs_after : Parent(m) = n => c.fs_after[m] = Absent
    /\ \E x \in Range(c.plan.symlinks_to_remove) :
           /\ IsPrefix(n, x.link_path) /\ n # x.link_path
           /\ c.fs_after[x.link_path] = Absent

\* C13: execute_uninstall_plan unlinks only paths of symlinks_to_remove, and
\* one of them only if it is, when removed, a symlink resolving to the
\* recorded source; every path of modified_symlinks and missing_symlinks and
\* every regular file stays as it was, and so does every directory but the
\* emptied ones above a removed link, which pruning deletes.
C13_UninstallKeepsUserEdits ==
    UninstallDone =>
        /\ \A n \in DOMAIN last.fs_before :
               last.fs_after[n] # last.fs_before[n] =>
                   UnlinkedIntact(last, n) \/ PrunedEmpty(last, n)
        /\ \A n \in Range(last.plan.missing_symlinks)
                        \cup LinkPathsOf(last.plan.modified_symlinks) :
               last.fs_after[n] = last.fs_before[n]
        /\ \A n \in DOMAIN last.fs_before :
               last.fs_before[n].kind = "file" =>
                   last.fs_after[n] = last.fs_before[n]

\* C13 happens: an uninstall that removed a link and left a modified one
C13_Witness ==
    /\ UninstallDone
    /\ last.outcome = "ok"
    /\ last.plan.modified_symlinks # <<>>
    /\ \E n \in LinkPathsOf(last.plan.symlinks_to_remove) :
           UnlinkedIntact(last, n)

\* C13 as first stated: every directory, too, stays as it was
C13_DirectoriesKept ==
    UninstallDone =>
        /\ \A n \in DOMAIN last.fs_before :
               last.fs_after[n] # last.fs_before[n] => UnlinkedIntact(last, n)
        /\ \A n \in Range(last.plan.missing_symlinks)
                        \cup LinkPathsOf(last.plan.modified_symlinks) :
               last.fs_after[n] = last.fs_before[n]
        /\ \A n \in DOMAIN last.fs_before :
               last.fs_before[n].kind \in {"file", "dir"} =>
                   last.fs_after[n] = last.fs_before[n]

\* the links of uninstall call c's symlinks_to_remove that were no longer
\* the recorded ones when the call started
Stale(c) == {x \in Range(c.plan.symlinks_to_remove) : ~LinkIntact(c.fs_before, x)}

\* C14: when a link of symlinks_to_remove has vanished or been repointed
\* since the plan was computed, execute_uninstall_plan raises at that link
\* (FileNotFoundError, OSError or ValueError), leaves what it found there,
\* and does not delete the package's registry entry.
C14_UninstallRaceReported ==
    (UninstallDone /\ Stale(last) # {}) =>
        /\ last.outcome \in {"file_not_found", "os_error", "value_error"}
        /\ last.reg_after = last.reg_before
        /\ last.plan.package_name
               \in DOMAIN RegistryLoad(last.reg_after).registry.packages
        /\ \A x \in Stale(last) :
               last.fs_after[x.link_path] = last.fs_before[x.link_path]
        /\ last.outcome = "file_not_found" =>
               \E x \in Stale(last) :
                   last.fs_before[x.link_path].kind = "absent"
        /\ last.outcome = "value_error" =>
               \E x \in Stale(last) : last.fs_before[x.link_path].kind = "link"

\* C14 happens: a repointed link stops the call after another link of the
\* plan was removed
C14_Witness ==
    /\ UninstallDone
    /\ last.outcome = "value_error"
    /\ \E n \in LinkPathsOf(last.plan.symlinks_to_remove) :
           UnlinkedIntact(last, n)

\* C15: uninstall deletes a directory only if it lies strictly below
\* target_dir, above a link the call removed, and holds nothing when deleted;
\* a directory that still holds something ends the walk, and target_dir
\* itself is never deleted.
C15_PruningBounded ==
    UninstallDone =>
        /\ \A n \in DOMAIN last.fs_before :
               (last.fs_before[n].kind = "dir"
                /\ last.fs_after[n] # last.fs_before[n])
               => PrunedEmpty(last, n)
        /\ \A n \in DOMAIN last.fs_before :
               (last.fs_before[n].kind = "dir"
                /\ \E m \in DOMAIN last.fs_after :
                       Parent(m) = n /\ last.fs_after[m] # Absent)
               => last.fs_after[n] = last.fs_before[n]
        /\ last.plan.target_dir \in DOMAIN last.fs_before =>
               last.fs_after[last.plan.target_dir]
                   = last.fs_before[last.plan.target_dir]

\* C15 happens: a link directly inside target_dir is removed, target_dir is
\* left empty, and it stays
C15_Witness ==
    /\ UninstallDone
    /\ last.outcome = "ok"
    /\ last.plan.target_dir = NestedTarget
    /\ last.plan.symlinks_to_remove # <<>>
    /\ IsEmptyDir(last.fs_after, NestedTarget)

\* C16: an execute_uninstall_plan that succeeds has written a registry file
\* without the package's entry and with every other entry as it was, whatever
\* the plan's three lists hold; compute_uninstall_plan for that name then
\* fails with PackageNotFound.  With nothing changed since planning the call
\* does succeed.
C16_UninstallForgetsPackage ==
    UninstallDone =>
        /\ last.outcome = "ok"
        /\ last.reg_after.exists
        /\ DOMAIN last.reg_after.data.packages
               = DOMAIN last.reg_before.data.packages \ {last.plan.package_name}
        /\ \A n \in DOMAIN last.reg_after.data.packages :
               last.reg_after.data.packages[n] = last.reg_before.data.packages[n]
        /\ compute_uninstall_plan(last.fs_after, last.reg_after,
                                  last.plan.package_name)
               = PlanError("package_not_found")

\* C16 happens: an uninstall with nothing to remove, one link missing and one
\* modified
C16_Witness ==
    /\ UninstallDone
    /\ last.outcome = "ok"
    /\ last.plan.symlinks_to_remove = <<>>
    /\ last.plan.missing_symlinks # <<>>
    /\ last.plan.modified_symlinks # <<>>
    /\ last.plan.package_name \notin DOMAIN last.reg_after.data.packages

\* the package names a registry file holds; none when there is no file
NamesIn(file) == IF file.exists THEN DOMAIN file.data.packages ELSE {}

\* C17: compute_uninstall_plan fails with PackageNotFound exactly when the
\* registry file, which may be absent, holds no entry under the name given,
\* and a call that so fails changes neither the target tree nor the registry
\* file.
C17_UnknownPackage ==
    [][\A n \in UninstallArgs :
           ComputeUninstallPlan(n) =>
               /\ (plan' = PlanError("package_not_found"))
                      <=> n \notin NamesIn(regfile)
               /\ fs' = fs
               /\ regfile' = regfile]_vars

\* C17 happens: the planner has failed with PackageNotFound for want of a
\* registry file
C17_Witness ==
    /\ plan = PlanError("package_not_found")
    /\ ~regfile.exists

\* an install under Abort that found no link path occupied and succeeded,
\* followed by the uninstall of the same package on what the install left
RoundTrip ==
    /\ last.op = "uninstall"
    /\ prev.op = "install"
    /\ prev.outcome = "ok"
    /\ prev.on_conflict = "abort"
    /\ prev.plan.symlinks_to_create # <<>>
    /\ \A x \in Range(prev.plan.symlinks_to_create) :
           Lstat(prev.fs_before, x.link_path) = Absent
    /\ last.plan.package_name = prev.plan.package_name
    /\ last.fs_before = prev.fs_after
    /\ last.reg_before = prev.reg_after

\* C18: an install under Abort into a target where no link path is occupied,
\* followed by compute_uninstall_plan and execute_uninstall_plan for the same
\* package: the uninstall succeeds, every link the install created is in
\* symlinks_to_remove and is gone afterwards, nothing is missing or modified,
\* every directory the install created under target_dir is gone again,
\* target_dir is kept, and the registry holds no entry for the package.
C18_InstallUninstallRoundTrip ==
    RoundTrip =>
        /\ last.outcome = "ok"
        /\ LinkPathsOf(prev.plan.symlinks_to_create)
               \subseteq LinkPathsOf(last.plan.symlinks_to_remove)
        /\ last.plan.missing_symlinks = <<>>
        /\ last.plan.modified_symlinks = <<>>
        /\ \A x \in Range(prev.plan.symlinks_to_create) :
               /\ Lstat(prev.fs_after, x.link_path).kind = "link"
               /\ Lstat(last.fs_after, x.link_path) = Absent
        /\ \A n \in DOMAIN prev.fs_before :
               (/\ n # prev.plan.target_dir
                /\ prev.fs_before[n] = Absent
                /\ prev.fs_after[n].kind = "dir")
               => last.fs_after[n] = Absent
        /\ Lstat(last.fs_after, prev.plan.target_dir)
               = Lstat(prev.fs_after, prev.plan.target_dir)
        /\ IsDir(last.fs_after, prev.plan.target_dir)
        /\ last.plan.package_name \notin NamesIn(last.reg_after)

\* C18 happens: the install made a directory under target_dir for a nested
\* link, and the uninstall has run
C18_Witness ==
    /\ RoundTrip
    /\ \E n \in DOMAIN prev.fs_before :
           /\ prev.fs_before[n] = Absent
           /\ prev.fs_after[n].kind = "dir"
    /\ Len(prev.plan.symlinks_to_create) > 1

\* C18 happens where target_dir is the directory the removed link was in: the
\* install made target_dir, the uninstall emptied it and kept it
C18_TargetKept ==
    /\ RoundTrip
    /\ prev.plan.target_dir = NestedTarget
    /\ prev.fs_before[NestedTarget] = Absent
    /\ IsEmptyDir(last.fs_after, NestedTarget)

\* a registry was saved and the file it wrote was then loaded
SavedThenLoaded ==
    /\ last.op = "load"
    /\ prev.op = "save"
    /\ last.file = prev.file

\* an entry but for its package_dir
SansPackageDir(e) ==
    [name |-> e.name, target_dir |-> e.target_dir, symlinks |-> e.symlinks,
     installed_at |-> e.installed_at]

\* C19: loading the file a registry was saved to gives an equal registry: the
\* same version, the same package names, and for each entry the same name,
\* package_dir, target_dir, installed_at and ordered list of symlinks.
C19_RegistryRoundTrip ==
    SavedThenLoaded =>
        /\ last.result.err = "none"
        /\ last.result.registry.version = prev.registry.version
        /\ DOMAIN last.result.registry.packages = DOMAIN prev.registry.packages
        /\ \A n \in DOMAIN prev.registry.packages :
               last.result.registry.packages[n] = prev.registry.packages[n]

\* what of C19 does hold: the round trip keeps everything but package_dir
C19_RoundTripSansPackageDir ==
    SavedThenLoaded =>
        /\ last.result.err = "none"
        /\ last.result.registry.version = prev.registry.version
        /\ DOMAIN last.result.registry.packages = DOMAIN prev.registry.packages
        /\ \A n \in DOMAIN prev.registry.packages :
               last.result.registry.packages[n]
                   = SansPackageDir(prev.registry.packages[n])

\* the round trip is taken with a registry holding an entry with two links
C19_RoundTripTaken ==
    /\ SavedThenLoaded
    /\ \E n \in DOMAIN prev.registry.packages :
           Len(prev.registry.packages[n].symlinks) > 1

\* a registry file that exists has been loaded
FileLoaded == last.op = "load" /\ last.file.exists

\* C20: loading a registry file fails when the version key is missing, when
\* the version is greater than the supported one, and when the packages key
\* is missing; a too-new version fails with the version error whether the
\* packages are missing, malformed or valid.
C20_LoadValidation ==
    FileLoaded =>
        /\ "version" \notin DOMAIN last.file.data
               => last.result.err = "registry_validation"
        /\ ("version" \in DOMAIN last.file.data
            /\ last.file.data.version > REGISTRY_VERSION)
               => last.result.err = "registry_version"
        /\ ("version" \in DOMAIN last.file.data
            /\ last.file.data.version <= REGISTRY_VERSION
            /\ "packages" \notin DOMAIN last.file.data)
               => last.result.err = "registry_validation"

\* C20 happens: a file with a too-new version and malformed packages has
\* been loaded
C20_Witness ==
    /\ FileLoaded
    /\ "version" \in DOMAIN last.file.data
    /\ last.file.data.version > REGISTRY_VERSION
    /\ "packages" \in DOMAIN last.file.data
    /\ last.file.data.packages \in MalformedPackages
    /\ last.result.err = "registry_version"

\* the other cases of C20 happen too: no version, no packages, a too-new
\* version without packages and with valid ones
C20_NoVersion ==
    FileLoaded /\ "version" \notin DOMAIN last.file.data
    /\ "packages" \in DOMAIN last.file.data
C20_NoPackages ==
    FileLoaded /\ "version" \in DOMAIN last.file.data
    /\ last.file.data.version <= REGISTRY_VERSION
    /\ "packages" \notin DOMAIN last.file.data
C20_TooNewNoPackages ==
    FileLoaded /\ "version" \in DOMAIN last.file.data
    /\ last.file.data.version > REGISTRY_VERSION
    /\ "packages" \notin DOMAIN last.file.data
C20_TooNewValid ==
    FileLoaded /\ "version" \in DOMAIN last.file.data
    /\ last.file.data.version > REGISTRY_VERSION
    /\ "packages" \in DOMAIN last.file.data
    /\ last.file.data.packages \in ValidPackages
    /\ last.file.data.packages # <<>>

\* C21: loading a registry path at which there is no file returns a registry
\* with no packages and the supported version, and there is still no file
\* afterwards.
C21_LoadAbsent ==
    (last.op = "load" /\ ~last.file.exists) =>
        /\ last.result.err = "none"
        /\ last.result.registry.packages = <<>>
        /\ last.result.registry.version = REGISTRY_VERSION
        /\ ~regfile.exists

\* C21 happens: a load where no file is
C21_Witness ==
    /\ last.op = "load"
    /\ ~last.file.exists
    /\ last.result.err = "none"

\* the registry file as it was before the save under way and as the save
\* leaves it
OldOrNew == {saving.before, RegistrySave(saving.registry)}

\* C22: at every point of a Registry.save, a crash after any of its
\* statements included, the registry file is the whole previous content (or
\* absent) or the whole new content, and every load meets a whole file, the
\* previous or the new one.
C22_AtomicSave ==
    /\ Whole(regfile)
    /\ last.op = "load" => Whole(last.file)
    /\ saving.step # "idle" =>
           /\ regfile \in OldOrNew
           /\ last.op = "load" => last.file \in OldOrNew
           /\ saving.step \in {"mkdir", "open", "write", "replace", "crashed"}
                  => regfile = saving.before
           /\ saving.step = "done" => regfile = RegistrySave(saving.registry)

\* C22 happens: the save crashed with the temporary file half written, and a
\* reader loaded the registry file while the text was being written
C22_Witness ==
    /\ saving.step = "crashed"
    /\ ~Whole(tmpfile)
    /\ tmpfile.cut = 1
    /\ last.op = "load"
    /\ last.during = "write"
    /\ regfile.exists
    /\ regfile # RegistrySave(saving.registry)

\* the symlinks a package asks for in the target
Wanted == {Symlink(TargetDir \o e.rel, d \o e.rel) :
              d \in PackageDirs, e \in UNION {PackageTree(p) : p \in PackageDirs}}

\* the verdict on what is at s.link_path, by the stated order of tests
Verdict(F, s) ==
    LET at == Lstat(F, s.link_path)
        type == IF at.kind = "absent" THEN "none"
                ELSE IF at.kind = "link"
                THEN IF Resolve(F, Join(Parent(s.link_path), at.raw))
                            = Resolve(F, s.source_path)
                     THEN "CORRECT_SYMLINK"
                     ELSE IF Lstat(F, Resolve(F, s.link_path)).kind = "absent"
                     THEN "BROKEN_SYMLINK"
                     ELSE "DIFFERENT_SYMLINK"
                ELSE IF at.kind = "dir" THEN "DIRECTORY"
                ELSE "FILE"
    IN  [type |-> type,
         path |-> IF type = "none" THEN <<>> ELSE s.link_path,
         points_to |-> IF at.kind = "link" THEN at.raw ELSE NoRaw]

\* C23: check_conflict gives one verdict for every state of link_path, by
\* these tests in order: nothing there, not even a dangling symlink: no
\* conflict; a symlink whose target, resolved from the link's parent, is the
\* resolved source_path: CorrectSymlink; a symlink whose target does not
\* exist: BrokenSymlink; any other symlink: DifferentSymlink; a real
\* directory: Directory; anything else: File.  A symlink verdict carries the
\* link's raw target.
C23_ConflictClassifier ==
    \A s \in Wanted : check_conflict(fs, s) = Verdict(fs, s)

\* C23 happens: the planner has met a dangling symlink and a directory at
\* two link paths of one package
C23_Witness ==
    /\ plan.kind = "plan"
    /\ {"BROKEN_SYMLINK", "DIRECTORY"} \subseteq ConflictTypesOf(plan.conflicts)
    /\ \A i \in DOMAIN plan.conflicts :
           \E s \in Wanted : plan.conflicts[i] = check_conflict(fs, s)

\* the other verdicts are given too
C23_SeesCorrect == \E s \in Wanted : Verdict(fs, s).type = "CORRECT_SYMLINK"
C23_SeesDifferent == \E s \in Wanted : Verdict(fs, s).type = "DIFFERENT_SYMLINK"
C23_SeesFile == \E s \in Wanted : Verdict(fs, s).type = "FILE"
C23_SeesNothing == \E s \in Wanted : Verdict(fs, s).type = "none"

\* a planner call: the invocation had no plan and now has one, or the error
\* the planner raised
PlannerStep == plan = NoPlan /\ plan' # NoPlan

\* C24: compute_install_plan and compute_uninstall_plan leave the target tree
\* and the registry file as they were, whether they return a plan or raise;
\* a step that changes either is a step of execute_install_plan or of
\* execute_uninstall_plan.
C24_PlannersReadOnly ==
    [][/\ PlannerStep => (fs' = fs /\ regfile' = regfile)
       /\ (fs' # fs \/ regfile' # regfile) =>
              (ExecuteInstallPlan \/ ExecuteUninstallPlan)]_vars

\* C24 happens: the uninstall planner has returned a plan on what an install
\* left
C24_Witness ==
    /\ plan.kind = "uninstall_plan"
    /\ last.op = "install"
    /\ fs = last.fs_after
    /\ regfile = last.reg_after

\* and the uninstall planner has raised where there is no registry file
C24_Raised ==
    /\ plan.kind = "error"
    /\ planned_with = "none"
    /\ ~regfile.exists

\* what compute_install_plan is to do with its two arguments: the error it
\* is to raise, or "none" when it is to return a plan
InputVerdict(F, package_arg, target_arg) ==
    IF Lstat(F, Resolve(F, package_arg)).kind = "absent" THEN "not_found"
    ELSE IF Lstat(F, Resolve(F, package_arg)).kind # "dir"
    THEN "not_a_directory"
    ELSE IF Resolve(F, package_arg) = <<>> THEN "value_error"
    ELSE IF IsPrefix(Resolve(F, package_arg), Resolve(F, target_arg))
    THEN "value_error"
    ELSE "none"

\* C25: compute_install_plan fails with a not-found condition when
\* package_dir does not exist, with a not-a-directory condition when it
\* exists and is no directory, with a validation error when package_dir is
\* the filesystem root or the resolved target_dir is the resolved package_dir
\* or lies inside it, and returns a plan in every other case; this for every
\* call an invocation can start with.
C25_InstallInputValidation ==
    plan = NoPlan => \A a \in InstallArgs : \A m \in Policies :
        LET verdict == InputVerdict(fs, a[1], a[2])
            planned == compute_install_plan(fs, a[1], a[2], m)
        IN  IF verdict = "none" THEN planned.kind = "plan"
            ELSE planned = PlanError(verdict)

\* C25 happens: the planner has raised its validation error
C25_Witness ==
    /\ plan = PlanError("value_error")
    /\ planned_with # "none"

\* and the two errors of normalize_package_dir
C25_NotFound == plan = PlanError("not_found") /\ planned_with # "none"
C25_NotADirectory ==
    plan = PlanError("not_a_directory") /\ planned_with # "none"

\* executor call c got past the checks made before the creation loop
LoopEntered(c) ==
    c.outcome \notin {"already_installed", "attribute_error", "conflict_error"}

\* C26: execute_install_plan removes no real directory, under any policy and
\* whatever the target tree holds when it runs, a directory that appeared at
\* a planned link_path after planning included; under force a real directory
\* at a link_path makes the call raise an is-a-directory error when the loop
\* gets to it; what is replaced was a file or a symlink, and the directory a
\* replaced symlink pointed to is still there.
C26_InstallKeepsDirectories ==
    InstallDone =>
        /\ \A n \in DOMAIN last.fs_before :
               last.fs_before[n].kind = "dir"
                   => last.fs_after[n] = last.fs_before[n]
        /\ (/\ last.on_conflict = "force"
            /\ LoopEntered(last)
            /\ \E x \in Range(last.plan.symlinks_to_create) :
                   Lstat(last.fs_before, x.link_path).kind = "dir")
               => /\ last.outcome \in {"is_a_directory", "file_exists"}
                  /\ Lstat(last.fs_before,
                           Head(last.plan.symlinks_to_create).link_path).kind
                         = "dir"
                         => last.outcome = "is_a_directory"
        /\ \A n \in DOMAIN last.fs_before :
               (last.fs_after[n] # last.fs_before[n]
                /\ last.fs_before[n].kind # "absent")
               => /\ last.on_conflict = "force"
                  /\ last.fs_before[n].kind \in {"file", "link"}
                  /\ IsDir(last.fs_before, n) => IsDir(last.fs_after,
                                                       Resolve(last.fs_before, n))

\* C26 happens: under force a directory that was not there at planning is
\* met at a link_path
C26_Witness ==
    /\ InstallDone
    /\ last.on_conflict = "force"
    /\ last.outcome = "is_a_directory"
    /\ "DIRECTORY" \notin ConflictTypesOf(last.plan.conflicts)

\* and a symlink to a directory is replaced under force
C26_DirLinkReplaced ==
    /\ InstallDone
    /\ last.outcome = "ok"
    /\ \E x \in Range(last.plan.symlinks_to_create) :
           /\ last.fs_before[x.link_path] = DirLink
           /\ SymlinkExists(last.fs_after, x)

\* executor call c met, at a link_path it was to create, something that is
\* not the link wanted
Occupied(c, x) ==
    /\ Lstat(c.fs_before, x.link_path).kind # "absent"
    /\ ~SymlinkExists(c.fs_before, x)

\* C27: under abort and skip execute_install_plan changes nothing that was
\* there before it ran; when a link_path of symlinks_to_create, free at
\* planning, is occupied at execution by anything but the correct link, the
\* call fails with a file-exists error, the occupant is as it was and the
\* registry file is not written.
C27_NoOverwrite ==
    (InstallDone /\ last.on_conflict \in {"abort", "skip"}) =>
        /\ \A n \in DOMAIN last.fs_before :
               last.fs_before[n].kind # "absent"
                   => last.fs_after[n] = last.fs_before[n]
        /\ \A x \in Range(last.plan.symlinks_to_create) :
               (LoopEntered(last) /\ Occupied(last, x))
               => /\ last.outcome = "file_exists"
                  /\ last.fs_after[x.link_path] = last.fs_before[x.link_path]
                  /\ last.reg_after = last.reg_before

\* C27 happens: under skip a file has appeared at a path planned as free
C27_Witness ==
    /\ InstallDone
    /\ last.on_conflict = "skip"
    /\ last.outcome = "file_exists"
    /\ \E x \in Range(last.plan.symlinks_to_create) :
           /\ Occupied(last, x)
           /\ last.fs_before[x.link_path].kind = "file"
           /\ last.fs_after[x.link_path].kind = "file"

\* C28: a link_path of symlinks_to_create that, when execute_install_plan
\* runs, is a symlink resolving to its source_path is neither unlinked nor
\* rewritten, under any policy, force included: its raw target is afterwards
\* what it was.
C28_CorrectLinkKept ==
    InstallDone =>
        \A x \in Range(last.plan.symlinks_to_create) :
            SymlinkExists(last.fs_before, x)
                => last.fs_after[x.link_path] = last.fs_before[x.link_path]

\* C28 happens: under force the loop has met a link to its source spelled as
\* an absolute path, which is not how the loop would have written it
C28_Witness ==
    /\ InstallDone
    /\ last.on_conflict = "force"
    /\ last.outcome = "ok"
    /\ \E x \in Range(last.plan.symlinks_to_create) :
           /\ last.fs_before[x.link_path] = LinkTo(AbsRaw(x.source_path))
           /\ last.fs_after[x.link_path] = LinkTo(AbsRaw(x.source_path))
           /\ relative_source_path(x) # AbsRaw(x.source_path)

\* the plan in hand, planned again under policy m on the same tree
Replanned(m) ==
    compute_install_plan(fs, plan.package_dir, plan.target_dir, m)

\* C29: for every package, target and target tree, compute_install_plan
\* returns equal plans under abort and under skip; the conflicts are the same
\* list under all three policies, and force alone adds entries to
\* symlinks_to_create.
C29_AbortSkipPlanAlike ==
    plan.kind = "plan" =>
        /\ plan = Replanned(planned_with)
        /\ Replanned("abort") = Replanned("skip")
        /\ Replanned("force").conflicts = Replanned("abort").conflicts
        /\ Range(Replanned("abort").symlinks_to_create)
               \subseteq Range(Replanned("force").symlinks_to_create)

\* C29 happens: a plan under skip with a file in the way, which force would
\* have scheduled
C29_Witness ==
    /\ plan.kind = "plan"
    /\ planned_with = "skip"
    /\ "FILE" \in ConflictTypesOf(plan.conflicts)
    /\ Len(Replanned("force").symlinks_to_create)
           > Len(plan.symlinks_to_create)

\* execute_install_plan ended in the conflict error of a plan holding a
\* Directory conflict
DirectoryConflictRaised ==
    /\ InstallDone
    /\ last.outcome = "conflict_error"
    /\ "DIRECTORY" \in ConflictTypesOf(last.plan.conflicts)

\* C30: the conflict error execute_install_plan raises for a plan holding a
\* Directory conflict carries every conflict of plan.conflicts, the ones
\* that are no Directory conflict too.
C30_ConflictErrorCarriesAll ==
    DirectoryConflictRaised => last.raised = last.plan.conflicts

\* what the error does carry: the Directory conflicts of the plan, in order
C30_CarriesDirectoryConflicts ==
    DirectoryConflictRaised =>
        last.raised = SelectSeq(last.plan.conflicts, IsDirectoryConflict)

\* the error is raised for a plan with a Directory conflict and another one
C30_MixedConflicts ==
    /\ DirectoryConflictRaised
    /\ ConflictTypesOf(last.plan.conflicts) # {"DIRECTORY"}

\* C31: every symlink execute_install_plan writes has as its target on disk
\* the source_path of a planned Symlink taken relative to the parent of its
\* link_path, walking up with .. where needed; the missing directories above
\* link_path have been made; and the Symlinks of the plan and of the registry
\* entry hold both paths whole, from the root: link_path below target_dir,
\* source_path naming the file in the package.
C31_RelativeOnDisk ==
    InstallDone =>
        /\ \A n \in DOMAIN last.fs_after :
               (last.fs_after[n] # last.fs_before[n]
                /\ last.fs_after[n].kind = "link")
               => /\ \E x \in Range(last.plan.symlinks_to_create) :
                         /\ x.link_path = n
                         /\ last.fs_after[n].raw
                                = RelativeTo(x.source_path, Parent(n))
                         /\ Normalize(Parent(n) \o last.fs_after[n].raw.parts)
                                = x.source_path
                  /\ ~last.fs_after[n].raw.abs
                  /\ \A d \in DirNodes :
                         (IsPrefix(d, n) /\ d # n)
                             => last.fs_after[d].kind = "dir"
        /\ \A x \in Range(last.plan.symlinks_to_create) :
               /\ IsPrefix(last.plan.target_dir, x.link_path)
               /\ IsPrefix(last.plan.package_dir, x.source_path)
        /\ last.outcome = "ok" =>
               \A y \in Range(RecordedSymlinks(last.reg_after,
                                               last.plan.package_name)) :
                   /\ IsPrefix(last.plan.target_dir, y.link_path)
                   /\ Lstat(last.fs_after, y.source_path).kind # "absent"

\* C31 happens: a link two levels down has been written, with a target that
\* walks up, below a directory made for it
C31_Witness ==
    /\ InstallDone
    /\ last.outcome = "ok"
    /\ \E x \in Range(last.plan.symlinks_to_create) :
           /\ Len(x.link_path) > Len(last.plan.target_dir) + 1
           /\ last.fs_before[Parent(x.link_path)].kind = "absent"
           /\ last.fs_after[Parent(x.link_path)].kind = "dir"
           /\ last.fs_after[x.link_path].kind = "link"
           /\ Head(last.fs_after[x.link_path].raw.parts) = ".."

\* the list ascends strictly in the path order: sorted, and nothing twice
Ascending(paths) ==
    \A i \in DOMAIN paths : \A j \in DOMAIN paths :
        i < j => PathLess(paths[i], paths[j])

\* C32: discover_files returns every entry below package_dir that is no
\* real directory exactly once, relative to package_dir, in sorted order
\* whatever the order the directories list in; no real directory is
\* returned; a symlink to a directory is returned and nothing beneath it is;
\* symlinks_to_create and conflicts of the plan follow the sorted order.
C32_FileEnumeration ==
    /\ last.op = "discover" =>
           /\ Ascending(last.files)
           /\ Range(last.files)
                  = {r \in {<<"f">>, <<"c">>, <<"c", "g">>, <<"l">>, <<"l", "x">>} :
                        Lstat(fs, Walked \o r).kind \in {"file", "link"}}
           /\ \A order \in ListingOrders :
                  last.files = discover_walk(fs, Walked, order)
           /\ \A r \in Range(last.files) : Lstat(fs, Walked \o r).kind # "dir"
           /\ fs[Walked \o <<"l">>] = DirLink =>
                  /\ <<"l">> \in Range(last.files)
                  /\ <<"l", "x">> \notin Range(last.files)
    /\ plan.kind = "plan" =>
           /\ Ascending([i \in DOMAIN plan.symlinks_to_create |->
                            plan.symlinks_to_create[i].link_path])
           /\ Ascending([i \in DOMAIN plan.conflicts |->
                            plan.conflicts[i].path])
           /\ LinkPathsOf(plan.symlinks_to_create) \cup ConflictPathsOf(plan.conflicts)
                  = {TargetDir \o r : r \in Range(last.files)}

\* C32 happens: a walk listing in descending order met a file below a
\* directory and a symlink to a directory, the list came out in another
\* order than walked, and the plan made from it has two conflicts
C32_Witness ==
    /\ last.op = "discover"
    /\ last.order = "descending"
    /\ last.walked # last.files
    /\ fs[Walked \o <<"l">>] = DirLink
    /\ Len(last.files) = 3
    /\ plan.kind = "plan"
    /\ Len(plan.conflicts) = 2

\* the install that ended last ran the command again that was interrupted
\* just before it: the same package, target and policy
RerunOfInterrupted ==
    /\ last.op = "install"
    /\ prev.op = "interrupted"
    /\ last.plan.package_dir = prev.plan.package_dir
    /\ last.plan.target_dir = prev.plan.target_dir
    /\ last.on_conflict = prev.on_conflict

\* C33: an install interrupted after any prefix of symlinks_to_create was
\* created and before the registry was saved is recovered by running the
\* same command again: wherever the first run would have succeeded the rerun
\* succeeds, every link of the package is then on disk and resolves to its
\* source, and the registry entry records all of them.
C33_InterruptedInstallRecovers ==
    (RerunOfInterrupted /\ prev.would.outcome = "ok") =>
        /\ last.outcome = "ok"
        /\ last.fs_after = prev.would.fs
        /\ \A x \in Range(prev.plan.symlinks_to_create) :
               /\ LinkIntact(last.fs_after, x)
               /\ last.fs_after[x.link_path]
                      = LinkTo(relative_source_path(x))
        /\ LinkPathsOf(RecordedSymlinks(last.reg_after,
                                        last.plan.package_name))
               = LinkPathsOf(prev.plan.symlinks_to_create)
                     \cup CorrectPathsOf(prev.plan.conflicts)
        /\ LinkPathsOf(RecordedSymlinks(last.reg_after,
                                        last.plan.package_name))
               = LinkPathsOf(RecordedSymlinks(prev.would.regfile,
                                              prev.plan.package_name))

\* C33 happens: an install of two links was stopped after the first one,
\* nothing was saved, and the same command was run again
C33_Witness ==
    /\ RerunOfInterrupted
    /\ prev.would.outcome = "ok"
    /\ Len(prev.plan.symlinks_to_create) = 2
    /\ prev.made = 1
    /\ prev.reg_after = prev.reg_before
    /\ prev.fs_after # prev.fs_before
    /\ prev.fs_after # prev.would.fs
    /\ last.outcome = "ok"

\* the interruption left a file the forced run was about to replace
C33_ForcedHalfway ==
    /\ RerunOfInterrupted
    /\ prev.on_conflict = "force"
    /\ prev.made = 1
    /\ \E x \in Range(prev.plan.symlinks_to_create) :
           /\ prev.fs_after[x.link_path].kind = "file"
           /\ last.fs_after[x.link_path].kind = "link"

\* both invocations have returned normally
BothInstalled ==
    \A i \in Invocations : procs[i].pc = "done" /\ procs[i].outcome = "ok"

\* the invocation that saved last
LateSaver ==
    CHOOSE i \in Invocations :
        \A j \in Invocations : procs[j].saved_at <= procs[i].saved_at

\* C34: nothing locks the registry file: of two execute_install_plan calls
\* for different package names that both returned normally, the file holds
\* the entry of the one that saved last, and the entry of the other only when
\* the last saver loaded after the other had saved; loads of both before
\* either save leave the file with one of the two entries.
C34_UnlockedRegistryRace ==
    BothInstalled =>
        \A j \in Invocations \ {LateSaver} :
            /\ procs[LateSaver].plan.package_name \in NamesIn(regfile)
            /\ procs[j].plan.package_name \in NamesIn(regfile)
                   <=> procs[LateSaver].loaded_at > procs[j].saved_at

\* C34 happens: both invocations returned normally and the registry file
\* holds the entry of one package only
C34_Witness ==
    /\ BothInstalled
    /\ Cardinality(NamesIn(regfile)) = 1
    /\ \A i \in Invocations : \A j \in Invocations :
           procs[i].loaded_at < procs[j].saved_at
    /\ \A i \in Invocations :
           \A x \in Range(procs[i].plan.symlinks_to_create) :
               Lstat(fs, x.link_path).kind = "link"

\* the interleaving without loss: one invocation after the other
C34_OneAfterTheOther ==
    /\ BothInstalled
    /\ Cardinality(NamesIn(regfile)) = 2

\* the errors the command line reports as registry errors
RegistryErrors == {"registry_validation", "registry_version"}

\* a step of haunt that loads the registry file raises a registry error and
\* leaves the file as it is; the install executor leaves the tree as well
HaltsOnBroken ==
    /\ ExecuteInstallPlan =>
           /\ last'.outcome \in RegistryErrors
           /\ regfile' = regfile
           /\ fs' = fs
    /\ (\E n \in UninstallArgs : ComputeUninstallPlan(n)) =>
           /\ plan'.kind = "error"
           /\ plan'.error \in RegistryErrors
           /\ regfile' = regfile
           /\ fs' = fs
    /\ ExecuteUninstallPlan =>
           /\ last'.outcome \in RegistryErrors
           /\ regfile' = regfile

\* C35: a registry file that is no JSON document, lacks a required key or
\* carries a newer version is never repaired: execute_install_plan,
\* compute_uninstall_plan and execute_uninstall_plan each raise a registry
\* error on it and leave the file as it is, and execute_install_plan raises
\* before it has made or removed anything in the target tree.
C35_BrokenRegistryKept ==
    [][(regfile \in BrokenFiles) => HaltsOnBroken]_vars

\* C35 happens: an install with links to make met a registry file cut short,
\* raised, and left the tree and the file alone
C35_Witness ==
    /\ last.op = "install"
    /\ last.reg_before = TextFile(EarlierRegistry.data, 1)
    /\ last.plan.symlinks_to_create # <<>>
    /\ last.outcome = "registry_validation"
    /\ last.fs_after = last.fs_before
    /\ regfile = last.reg_before

\* an uninstall planned on a sound file met a newer one when it came to
\* load: the links are gone, the error is raised, the file is as it was
C35_UninstallMetNewer ==
    /\ last.op = "uninstall"
    /\ last.reg_before \in BrokenFiles
    /\ last.outcome = "registry_version"
    /\ last.fs_after # last.fs_before
    /\ regfile = last.reg_before

\* the uninstall planner raised on an entry without its symlinks
C35_PlannerMetMalformed ==
    /\ plan = PlanError("registry_validation")
    /\ planned_with = "none"
    /\ regfile.exists /\ Whole(regfile)
    /\ "packages" \in DOMAIN regfile.data
    /\ "version" \in DOMAIN regfile.data

\* the entries a registry file holds, by name; none when there is no file
EntriesOf(file) == IF file.exists THEN file.data.packages ELSE <<>>

\* executor call c, an install or an uninstall that returned normally,
\* changed the entry under its package's name and no other, and every entry
\* is stored under its own name
FrameKept(c) ==
    /\ \A n \in (DOMAIN EntriesOf(c.reg_before)
                     \cup DOMAIN EntriesOf(c.reg_after))
                    \ {c.plan.package_name} :
           /\ n \in DOMAIN EntriesOf(c.reg_before)
           /\ n \in DOMAIN EntriesOf(c.reg_after)
           /\ EntriesOf(c.reg_after)[n] = EntriesOf(c.reg_before)[n]
    /\ c.op = "install" => c.plan.package_name \in NamesIn(c.reg_after)
    /\ c.op = "uninstall" => c.plan.package_name \notin NamesIn(c.reg_after)
    /\ \A n \in NamesIn(c.reg_after) : EntriesOf(c.reg_after)[n].name = n

\* executor call c installs again a package registered from the same
\* directory, with no conflict in the way of its policy
Reinstall(c) ==
    /\ c.op = "install"
    /\ InstalledFromSame(c)
    /\ SelectSeq(c.plan.conflicts, IsDirectoryConflict) = <<>>
    /\ c.on_conflict = "abort" =>
           SelectSeq(c.plan.conflicts, IsBlockingConflict) = <<>>

\* C36: a successful install or uninstall of a package changes only the entry
\* under that package's name, created or replaced by install and deleted by
\* uninstall; every other entry is unchanged; every key of registry.packages
\* equals the name field of its entry; and after a reinstall the entry
\* records only the links of the latest plan.
C36_RegistryFrameLifecycle ==
    /\ (last.op \in {"install", "uninstall"} /\ last.outcome = "ok") =>
           FrameKept(last)
    /\ Reinstall(last) =>
           /\ last.outcome = "ok"
           /\ LinkPathsOf(RecordedSymlinks(last.reg_after,
                                           last.plan.package_name))
                  = LinkPathsOf(last.plan.symlinks_to_create)
                        \cup CorrectPathsOf(last.plan.conflicts)

\* the part of C36 that does not need a reinstall: the frame of every
\* install and uninstall that returned normally
C36_FrameOfSuccess ==
    (last.op \in {"install", "uninstall"} /\ last.outcome = "ok") =>
        FrameKept(last)

\* an install beside another package's entry, and an uninstall beside one
C36_InstalledBeside ==
    /\ last.op = "install"
    /\ last.outcome = "ok"
    /\ NamesIn(last.reg_before) # {}
    /\ Cardinality(NamesIn(last.reg_after)) = 2

C36_UninstalledBeside ==
    /\ last.op = "uninstall"
    /\ last.outcome = "ok"
    /\ Cardinality(NamesIn(last.reg_before)) = 2
    /\ Cardinality(NamesIn(last.reg_after)) = 1

\* the reinstall whose latest plan holds a link the entry does not record
C36_ReinstallWithMore ==
    /\ Reinstall(last)
    /\ LinkPathsOf(RecordedSymlinks(last.reg_after, last.plan.package_name))
           # LinkPathsOf(last.plan.symlinks_to_create)
                 \cup CorrectPathsOf(last.plan.conflicts)

\* the uninstall of a package is planned right after its install returned
\* normally, the tree and the registry file being what the install left
PlannedOnFreshInstall ==
    /\ UninstallPlanned
    /\ last.op = "install"
    /\ last.outcome = "ok"
    /\ plan.package_name = last.plan.package_name
    /\ fs = last.fs_after
    /\ regfile = last.reg_after

\* C37: right after a plan of compute_install_plan was executed and returned
\* normally, every symlink the package's registry entry records is on disk
\* and resolves to its recorded source_path, and compute_uninstall_plan puts
\* every recorded symlink in symlinks_to_remove and none in missing_symlinks
\* or modified_symlinks.
C37_RecordedLinksLive ==
    /\ (last.op = "install" /\ last.outcome = "ok") =>
           \A x \in Range(RecordedSymlinks(last.reg_after,
                                           last.plan.package_name)) :
               /\ LinkIntact(last.fs_after, x)
               /\ SymlinkExists(last.fs_after, x)
    /\ PlannedOnFreshInstall =>
           /\ plan.symlinks_to_remove
                  = RecordedSymlinks(regfile, plan.package_name)
           /\ plan.missing_symlinks = <<>>
           /\ plan.modified_symlinks = <<>>

\* C37 happens: the uninstall planned after an install that made one link
\* and found the other already correct takes both for removal
C37_Witness ==
    /\ PlannedOnFreshInstall
    /\ Len(plan.symlinks_to_remove) = 2
    /\ Len(last.plan.symlinks_to_create) = 1
    /\ CorrectPathsOf(last.plan.conflicts) # {}

\* and so when the recorded source is not the package's file but what that
\* file, a symlink itself, resolves to
C37_ResolvedSource ==
    /\ PlannedOnFreshInstall
    /\ \E x \in Range(plan.symlinks_to_remove) :
           ~IsPrefix(last.plan.package_dir, x.source_path)

\* the paths an install under skip passed over: its File, DifferentSymlink
\* and BrokenSymlink conflicts
SkippedPaths(c) ==
    {c.plan.conflicts[i].path :
        i \in {j \in DOMAIN c.plan.conflicts :
                  c.plan.conflicts[j].type
                      \in {"FILE", "DIFFERENT_SYMLINK", "BROKEN_SYMLINK"}}}

\* an uninstall has followed the install of the same package under skip
UninstalledAfterSkip ==
    /\ last.op = "uninstall"
    /\ prev.op = "install"
    /\ prev.outcome = "ok"
    /\ prev.on_conflict = "skip"
    /\ last.plan.package_name = prev.plan.package_name

\* C38: a path that an install under skip passed over as a File,
\* DifferentSymlink or BrokenSymlink conflict is not recorded in the package's
\* entry; a later uninstall of the package neither removes it nor reports it
\* as missing or modified, and what is at the path is the same after the
\* uninstall as before the install.
C38_SkippedNotOwned ==
    /\ (last.op = "install" /\ last.outcome = "ok"
        /\ last.on_conflict = "skip") =>
           /\ SkippedPaths(last)
                  \cap LinkPathsOf(RecordedSymlinks(last.reg_after,
                                                    last.plan.package_name))
                  = {}
           /\ \A n \in SkippedPaths(last) :
                  last.fs_after[n] = last.fs_before[n]
    /\ UninstalledAfterSkip =>
           /\ SkippedPaths(prev)
                  \cap (LinkPathsOf(last.plan.symlinks_to_remove)
                            \cup Range(last.plan.missing_symlinks)
                            \cup LinkPathsOf(last.plan.modified_symlinks))
                  = {}
           /\ \A n \in SkippedPaths(prev) :
                  /\ last.fs_after[n] = prev.fs_before[n]
                  /\ last.fs_after[n].kind # "absent"

\* C38 happens: the install under skip passed over a symlink of the user's
\* and made the other link; the uninstall took that link away and left the
\* user's symlink where it was
C38_Witness ==
    /\ UninstalledAfterSkip
    /\ last.outcome = "ok"
    /\ SkippedPaths(prev) # {}
    /\ last.plan.symlinks_to_remove # <<>>
    /\ \E n \in SkippedPaths(prev) : last.fs_after[n].kind = "link"
    /\ last.fs_after # last.fs_before

\* the uninstall that ended last, not stopped from outside itself, ran again
\* the uninstall that stopped just before it with the entry of the package
\* still in the registry
RerunOfStopped ==
    /\ last.op = "uninstall"
    /\ last.outcome # "interrupted"
    /\ prev.op = "uninstall"
    /\ prev.outcome # "ok"
    /\ last.plan.package_name = prev.plan.package_name
    /\ prev.plan.package_name \in NamesIn(prev.reg_after)

\* C39: when execute_uninstall_plan stops, on an error or stopped from
\* outside, after removing some links and before the entry is deleted,
\* planning and executing the uninstall of the same package again, nothing
\* else having changed, returns normally: the links already removed are
\* classified missing, the recorded links still intact are removed, and the
\* entry is deleted.
C39_PartialUninstallRecovers ==
    RerunOfStopped =>
        /\ last.outcome = "ok"
        /\ \A x \in Range(RecordedSymlinks(prev.reg_after,
                                           prev.plan.package_name)) :
               /\ (prev.fs_before[x.link_path] # prev.fs_after[x.link_path])
                      => x.link_path \in Range(last.plan.missing_symlinks)
               /\ LinkIntact(prev.fs_after, x)
                      => /\ x \in Range(last.plan.symlinks_to_remove)
                         /\ last.fs_after[x.link_path].kind = "absent"
               /\ (prev.fs_after[x.link_path].kind # "absent"
                   /\ ~LinkIntact(prev.fs_after, x))
                      => last.fs_after[x.link_path]
                             = prev.fs_after[x.link_path]
        /\ last.plan.package_name \notin NamesIn(last.reg_after)

\* C39 happens: the first run removed one link and raised on the next, which
\* had been changed behind its back; the rerun found the first missing and
\* deleted the entry
C39_Witness ==
    /\ RerunOfStopped
    /\ prev.outcome = "value_error"
    /\ prev.fs_after # prev.fs_before
    /\ last.plan.missing_symlinks # <<>>
    /\ last.plan.modified_symlinks # <<>>
    /\ last.outcome = "ok"

\* the first run was stopped from outside after one of two links; the rerun
\* found it missing and removed the other
C39_StoppedHalfway ==
    /\ RerunOfStopped
    /\ prev.outcome = "interrupted"
    /\ Len(prev.plan.symlinks_to_remove) = 2
    /\ Len(last.plan.missing_symlinks) = 1
    /\ Len(last.plan.symlinks_to_remove) = 1
    /\ last.outcome = "ok"

\* the links of the packages other than the one executor call c is about:
\* each symlink an entry of another name records that is on disk before the
\* call and resolves to its recorded source
LinksOfOthers(c) ==
    UNION {{y \in Range(RecordedSymlinks(c.reg_before, b)) :
               LinkIntact(c.fs_before, y)} :
           b \in NamesIn(c.reg_before) \ {c.plan.package_name}}

\* C40: whatever installs went before, a Force install of another package
\* over a link of this one among them, an uninstall never removes a link
\* that resolves to a source file of another package: if the path is recorded
\* for the uninstalled package the link is classified modified, and it stays
\* on disk and in the other package's entry.
C40_CrossPackageSafety ==
    last.op = "uninstall" =>
        \A y \in LinksOfOthers(last) :
            /\ last.fs_after[y.link_path] = last.fs_before[y.link_path]
            /\ y.link_path \notin LinkPathsOf(last.plan.symlinks_to_remove)
            /\ y.link_path \in LinkPathsOf(RecordedSymlinks(
                                              last.reg_before,
                                              last.plan.package_name))
                   => y.link_path
                          \in LinkPathsOf(last.plan.modified_symlinks)
            /\ \E b \in NamesIn(last.reg_after) \ {last.plan.package_name} :
                   y \in Range(RecordedSymlinks(last.reg_after, b))

\* the links of other packages that the uninstalled package does not record
\* with a source resolving to the same file
LinksOfOthersAlone(c) ==
    {y \in LinksOfOthers(c) :
        \A x \in Range(RecordedSymlinks(c.reg_before, c.plan.package_name)) :
            x.link_path = y.link_path
                => Resolve(c.fs_before, x.source_path)
                       # Resolve(c.fs_before, y.source_path)}

\* the part of C40 that holds: a link of another package is kept, on disk
\* and in that package's entry, and classified modified where the
\* uninstalled package records the path, unless both packages record the
\* path with sources that resolve to one file
C40_SafeWhereSourcesDiffer ==
    last.op = "uninstall" =>
        \A y \in LinksOfOthersAlone(last) :
            /\ last.fs_after[y.link_path] = last.fs_before[y.link_path]
            /\ y.link_path \notin LinkPathsOf(last.plan.symlinks_to_remove)
            /\ y.link_path \in LinkPathsOf(RecordedSymlinks(
                                              last.reg_before,
                                              last.plan.package_name))
                   => y.link_path
                          \in LinkPathsOf(last.plan.modified_symlinks)
            /\ \E b \in NamesIn(last.reg_after) \ {last.plan.package_name} :
                   y \in Range(RecordedSymlinks(last.reg_after, b))

\* a Force install of another package replaced a link of this one, and the
\* uninstall of this one found it modified and left it
C40_ForcedOverKept ==
    /\ last.op = "uninstall"
    /\ last.outcome = "ok"
    /\ prev.op = "install"
    /\ prev.on_conflict = "force"
    /\ prev.outcome = "ok"
    /\ prev.plan.package_name # last.plan.package_name
    /\ \E y \in LinksOfOthersAlone(last) :
           /\ y.link_path \in LinkPathsOf(last.plan.modified_symlinks)
           /\ y.link_path \in LinkPathsOf(prev.plan.symlinks_to_create)
           /\ prev.fs_before[y.link_path].kind = "link"
           /\ last.fs_after[y.link_path].kind = "link"

\* two packages record one path with one source, and the uninstall of the
\* one removed the link of the other
C40_SharedLinkRemoved ==
    /\ last.op = "uninstall"
    /\ last.outcome = "ok"
    /\ \E y \in LinksOfOthers(last) :
           /\ last.fs_after[y.link_path].kind = "absent"
           /\ \E b \in NamesIn(last.reg_after) :
                  y \in Range(RecordedSymlinks(last.reg_after, b))

====
